---- MODULE Spec2Model ----
(***************************************************************************)
(* HeatSync backend: Change-Gate and Reading Store (saveIfChanged), the    *)
(* Aggregator (aggregateAndStore, read back by getAggregates) and the      *)
(* Alert Rule Evaluator (checkAlerts).                                     *)
(*                                                                         *)
(* Units.  Temperatures, humidities and thresholds are integers in         *)
(* thousandths of a unit (20.01 C is 20010), so that the 2-decimal         *)
(* rounding of toFixed(2) is a real computation.  Times are integer        *)
(* seconds since the epoch.  An optional value (null / undefined in the    *)
(* code) is the empty tuple <<>>, a present one the 1-tuple <<v>>.         *)
(***************************************************************************)
EXTENDS Integers, Sequences, FiniteSets, Bags, TLC

\* ------------------------------------------------------------------ bounds
MaxMsgs == 3
MaxEvents == 4
MaxCalls == 2
MaxClock == 3660
MaxRuns == 2
MaxAggReadings == 2
MaxAggClock == 60
MaxMedianReadings == 3
MaxMedianClock == 90

\* ------------------------------------------------------- sample input sets
Devices == {"d1", "d2"}
Procs == {1, 2}
GateTemps == {0, 20000, 20004, 20010}
GateHums == {<<>>, <<0>>, <<45000>>, <<45004>>}
\* The calls of the Change-Gate runs: every combination for d1, and two
\* plain readings of a second device.
GateInputs ==
  {[deviceId |-> "d1", temperature |-> t, humidity |-> h] :
      t \in GateTemps, h \in GateHums}
  \cup {[deviceId |-> "d2", temperature |-> t, humidity |-> <<>>] :
      t \in {20000, 20010}}

\* ------------------------------------------------------------------- state
VARIABLES
  clock,       \* server wall clock / database now(), epoch seconds
  readings,    \* table temperature_readings, in insertion (id) order
  alerts,      \* table alerts: id -> rule
  procs,       \* the invocations of checkAlerts in progress, per chain
  sent,        \* history: the calls of resend.emails.send, in order
  msgs,        \* history: the messages ingested so far
  aggregates,  \* table temperature_aggregates: a bag of rows (ids left out)
  runs,        \* the invocations of aggregateAndStore, by runner
  runlog,      \* history: the ended invocations of aggregateAndStore
  observed,    \* history: the result of the call of getAggregates just made
  jobs,        \* the cron handlers of AggregationScheduler, by tier
  listener,    \* the process holding the 'message' listener of the MQTT client
  chains,      \* the calls of saveIfChanged the listener started, not awaited
  received,    \* history: the payloads delivered to the listener, in order
  clients,     \* the sockets of the gateway: id -> socket (client.data)
  wslog,       \* history: the gateway messages handled and the broadcasts
  devices,     \* table devices: the rows, primary key id
  touches      \* the calls of updateLastSeen in progress, by caller

extVars == <<listener, chains, received, clients, wslog, devices, touches>>
aggVars == <<aggregates, runs, runlog, observed, jobs, extVars>>
vars == <<clock, readings, alerts, procs, sent, msgs, aggregates, runs, runlog,
          observed, jobs, listener, chains, received, clients, wslog, devices,
          touches>>

\* The calls of saveIfChanged that can be in progress at the same time, and
\* a call that is not in progress.
Chains == {1, 2}
IdleChain == [pc |-> "idle", temperature |-> 0, deviceId |-> "", last |-> <<>>]

\* The sockets of the gateway, and a socket that is not connected.
Clients == {1, 2}
NoSocket == [connected |-> FALSE, pc |-> "idle", token |-> "",
             subscribedDevices |-> <<>>, updates |-> {}]

\* The callers of updateLastSeen that can have a call in progress at the
\* same time, and a call that is not in progress.
Callers == {1, 2}
IdleTouch == [pc |-> "idle", deviceId |-> "", at |-> 0, existing |-> <<>>,
              error |-> FALSE]

\* The ingestion listener, the gateway and the device registry after
\* construction: listening, no socket, no device row, no call in progress.
ExtInit ==
  /\ listener = "listening"
  /\ chains = [c \in Chains |-> IdleChain]
  /\ received = <<>>
  /\ clients = [c \in Clients |-> NoSocket]
  /\ wslog = <<>>
  /\ devices = {}
  /\ touches = [k \in Callers |-> IdleTouch]

\* The schedulers that can have an invocation of aggregateAndStore in
\* progress at the same time, and the invocation of the first of them.
Runners == {1, 2, 3}
run == runs[1]

\* The three cron handlers, and a handler that is not running: `call` is the
\* position of the awaited call of aggregateAndStore (0: none), `to` the
\* handler's `to`, `last` the instant of the last tick that fired it.
Tiers == {"minute", "hour", "day"}
IdleJob == [call |-> 0, to |-> 0, last |-> -1]
IdleJobs == [t \in Tiers |-> IdleJob]

IdleProc ==
  [pc |-> "idle", event |-> 0, deviceId |-> "", temperature |-> 0,
   humidity |-> <<>>, now |-> 0, deviceAlerts |-> <<>>, idx |-> 0]

IdleRun ==
  [pc |-> "idle", granularity |-> "", from |-> 0, to |-> 0,
   deviceIds |-> <<>>, idx |-> 0, values |-> {}, before |-> EmptyBag,
   nReadings |-> 0]

Null == <<>>
Some(v) == <<v>>
Val(o) == o[1]

\* Number.prototype.toFixed(2) followed by Number(): the value rounded to
\* hundredths (half away from zero), here in hundredths.
ToFixed2(x) ==
  IF x >= 0 THEN (x + 5) \div 10 ELSE 0 - ((5 - x) \div 10)

\* The indices of the rows of device d in the Reading Store.
RowsOf(d) == {i \in 1..Len(readings) : readings[i].deviceId = d}

\* select ... where device_id = d order by taken_at desc limit 1
\* (<<>> when the device has no row, else <<row>>).
LastRow(d) ==
  IF RowsOf(d) = {} THEN <<>>
  ELSE LET i == CHOOSE i \in RowsOf(d) :
                  \A j \in RowsOf(d) : readings[j].takenAt <= readings[i].takenAt
       IN <<readings[i]>>

\* lastValue: a truthiness test, so a stored 0 reads as "no prior value".
LastValue(last) ==
  IF last # <<>> /\ last[1].temperatureC # 0 THEN Some(last[1].temperatureC) ELSE Null

\* lastHumidity: same truthiness test on the stored humidity (null or 0).
LastHumidity(last) ==
  IF last # <<>> /\ last[1].humidity # Null /\ Val(last[1].humidity) # 0
  THEN Some(Val(last[1].humidity)) ELSE Null

\* Variant of TempChanged without the "no prior value" case.
TempChangedNoFirst(last, temperature) ==
  /\ LastValue(last) # Null
  /\ ToFixed2(Val(LastValue(last))) # ToFixed2(temperature)

TempChanged(last, temperature) ==
  \/ LastValue(last) = Null
  \/ ToFixed2(Val(LastValue(last))) # ToFixed2(temperature)

\* Variant of HumidityChanged that needs a prior humidity to compare with.
HumidityChangedNeedsPrior(last, humidity) ==
  /\ humidity # Null
  /\ LastHumidity(last) # Null
  /\ ToFixed2(Val(LastHumidity(last))) # ToFixed2(Val(humidity))

HumidityChanged(last, humidity) ==
  /\ humidity # Null
  /\ \/ LastHumidity(last) = Null
     \/ ToFixed2(Val(LastHumidity(last))) # ToFixed2(Val(humidity))

\* TRUE iff saveIfChanged(temperature, deviceId, humidity) reaches the insert.
Accepts(temperature, deviceId, humidity) ==
  LET last == LastRow(deviceId)
  IN TempChanged(last, temperature) \/ HumidityChanged(last, humidity)

\* Variant of StoreAfterSave without the early return.
StoreAfterSaveAlways(temperature, deviceId, humidity) ==
  Append(readings, [deviceId |-> deviceId, temperatureC |-> temperature,
                    humidity |-> humidity, takenAt |-> clock])

\* Variant of StoreAfterSave: an accepted reading replaces the last row of
\* its device instead of being added.
StoreAfterSaveUpsert(temperature, deviceId, humidity) ==
  LET row == [deviceId |-> deviceId, temperatureC |-> temperature,
              humidity |-> humidity, takenAt |-> clock]
      last == {i \in RowsOf(deviceId) : \A j \in RowsOf(deviceId) : j <= i}
  IN
  IF ~Accepts(temperature, deviceId, humidity) THEN readings
  ELSE IF last = {} THEN Append(readings, row)
  ELSE [readings EXCEPT ![CHOOSE i \in last : TRUE] = row]

\* The Reading Store after saveIfChanged(temperature, deviceId, humidity);
\* taken_at defaults to now().
StoreAfterSave(temperature, deviceId, humidity) ==
  IF Accepts(temperature, deviceId, humidity)
  THEN Append(readings, [deviceId |-> deviceId, temperatureC |-> temperature,
                         humidity |-> humidity, takenAt |-> clock])
  ELSE readings

\* Two rows of one device never share taken_at: now() has microsecond
\* resolution and the calls for one device are delivered one after another.
FreshInstant(d) == \A i \in RowsOf(d) : readings[i].takenAt < clock

SaveIfChanged(temperature, deviceId, humidity) ==
  /\ Len(msgs) < MaxMsgs
  /\ procs[1].pc = "idle"
  /\ FreshInstant(deviceId)
  /\ readings' = StoreAfterSave(temperature, deviceId, humidity)
  /\ msgs' = Append(msgs, [deviceId |-> deviceId, temperature |-> temperature,
                           humidity |-> humidity,
                           at |-> clock, now |-> <<>>,
                           prior |-> LastRow(deviceId),
                           stored |-> Len(readings') > Len(readings)])
  /\ observed' = <<>>
  /\ UNCHANGED <<clock, alerts, procs, sent, aggregates, runs, runlog, jobs, extVars>>

Tick(d) ==
  /\ clock' = clock + d
  /\ observed' = <<>>
  /\ UNCHANGED <<readings, alerts, procs, sent, msgs, aggregates, runs, runlog, jobs, extVars>>

GateInit ==
  /\ aggregates = EmptyBag /\ runs = [r \in Runners |-> IdleRun] /\ runlog = <<>> /\ observed = <<>>
  /\ jobs = IdleJobs
  /\ ExtInit
  /\ clock = 0
  /\ readings = <<>>
  /\ alerts = <<>>
  /\ procs = [p \in Procs |-> IdleProc]
  /\ sent = <<>>
  /\ msgs = <<>>

\* Time passes between two calls for one device.
GateTick == (\E d \in Devices : ~FreshInstant(d)) /\ Tick(1)

GateNext ==
  \/ \E m \in GateInputs : SaveIfChanged(m.temperature, m.deviceId, m.humidity)
  \/ GateTick

GateSpec == GateInit /\ [][GateNext]_vars

\* ====================================================================
\* Alert Rule Evaluator (AlertsService.checkAlerts)
\* ====================================================================
\* The throttle cooldown, 60 * 60 * 1000 ms, in seconds.
Cooldown == 3600

\* Date.getDay / getHours / getMinutes; the server's local time zone is UTC
\* and 1970-01-01 was a Thursday (4).
GetDay(now) == ((now \div 86400) + 4) % 7
GetHours(now) == (now % 86400) \div 3600
GetMinutes(now) == (now % 3600) \div 60

\* n.toString().padStart(2, '0') for 0 <= n < 100, as character codes.
PadStart2(n) == <<48 + (n \div 10), 48 + (n % 10)>>

\* `${HH}:${MM}`; 58 is the code of ':'.
CurrentTimeStr(now) ==
  PadStart2(GetHours(now)) \o <<58>> \o PadStart2(GetMinutes(now))

\* The JavaScript < on strings: lexicographic on the character codes.
RECURSIVE StrLess(_, _)
StrLess(a, b) ==
  IF b = <<>> THEN FALSE
  ELSE IF a = <<>> THEN TRUE
  ELSE IF a[1] # b[1] THEN a[1] < b[1]
  ELSE StrLess(Tail(a), Tail(b))

StrLeq(a, b) == ~StrLess(b, a)

\* Variant of DateSkip: the start and the end instant are outside the range.
DateSkipExclusive(alert, now) ==
  \/ alert.startDate # Null /\ now <= Val(alert.startDate)
  \/ alert.endDate # Null /\ now >= Val(alert.endDate)

\* 1. Check Date Range: TRUE iff the rule is skipped.
DateSkip(alert, now) ==
  \/ alert.startDate # Null /\ now < Val(alert.startDate)
  \/ alert.endDate # Null /\ now > Val(alert.endDate)

\* Variant of DaySkip: an empty weekday set admits no day.
DaySkipEmptyBlocks(alert, now) == GetDay(now) \notin alert.daysOfWeek

\* 2. Check Days of the Week (daysOfWeek null or [] is the empty set).
DaySkip(alert, now) ==
  /\ alert.daysOfWeek # {}
  /\ GetDay(now) \notin alert.daysOfWeek

\* Variant of TimeSkip: an overnight window skips like a same-day one.
TimeSkipOvernightOr(alert, now) ==
  LET cur == CurrentTimeStr(now) IN
  /\ alert.startTime # <<>>
  /\ alert.endTime # <<>>
  /\ StrLess(cur, alert.startTime) \/ StrLess(alert.endTime, cur)

\* Variant of TimeSkip: a same-day window excludes its two end points.
TimeSkipExclusive(alert, now) ==
  LET cur == CurrentTimeStr(now) IN
  /\ alert.startTime # <<>>
  /\ alert.endTime # <<>>
  /\ IF StrLeq(alert.startTime, alert.endTime)
     THEN StrLeq(cur, alert.startTime) \/ StrLeq(alert.endTime, cur)
     ELSE StrLess(cur, alert.startTime) /\ StrLess(alert.endTime, cur)

\* 3. Check Time Range (a null or empty string is <<>>).
TimeSkip(alert, now) ==
  LET cur == CurrentTimeStr(now) IN
  /\ alert.startTime # <<>>
  /\ alert.endTime # <<>>
  /\ IF StrLeq(alert.startTime, alert.endTime)
     THEN StrLess(cur, alert.startTime) \/ StrLess(alert.endTime, cur)
     ELSE StrLess(cur, alert.startTime) /\ StrLess(alert.endTime, cur)

\* Variant of OutOfRange with the comparison against min reversed.
OutOfRangeMinReversed(alert, v) ==
  \/ alert.minThreshold # Null /\ v > Val(alert.minThreshold)
  \/ alert.maxThreshold # Null /\ v > Val(alert.maxThreshold)

\* Variant of OutOfRange: a value equal to max is out of range.
OutOfRangeMaxInclusive(alert, v) ==
  \/ alert.minThreshold # Null /\ v < Val(alert.minThreshold)
  \/ alert.maxThreshold # Null /\ v >= Val(alert.maxThreshold)

OutOfRange(alert, v) ==
  \/ alert.minThreshold # Null /\ v < Val(alert.minThreshold)
  \/ alert.maxThreshold # Null /\ v > Val(alert.maxThreshold)

\* Variant of Triggered: a humidity rule without a humidity is compared with
\* the temperature.
TriggeredOnTemperature(alert, temperature, humidity) ==
  IF alert.type = "temperature" THEN OutOfRange(alert, temperature)
  ELSE IF alert.type = "humidity"
       THEN OutOfRange(alert, IF humidity # Null THEN Val(humidity)
                              ELSE temperature)
  ELSE FALSE

\* 4. Check Thresholds: the value of `triggered`.
Triggered(alert, temperature, humidity) ==
  IF alert.type = "temperature" THEN OutOfRange(alert, temperature)
  ELSE IF alert.type = "humidity" /\ humidity # Null
       THEN OutOfRange(alert, Val(humidity))
  ELSE FALSE

\* The `value` handed to sendAlertEmail.
AlertValue(alert, temperature, humidity) ==
  IF alert.type = "temperature" THEN temperature
  ELSE IF alert.type = "humidity" /\ humidity # Null THEN Val(humidity)
  ELSE 0

\* Variant of Throttled: an event exactly one cooldown later is suppressed.
ThrottledInclusive(alert, now) ==
  /\ alert.lastTriggeredAt # Null
  /\ now - Val(alert.lastTriggeredAt) <= Cooldown

\* 5. Check Throttling, against the row as it was selected.
Throttled(alert, now) ==
  /\ alert.lastTriggeredAt # Null
  /\ now - Val(alert.lastTriggeredAt) < Cooldown

\* TRUE iff the loop body reaches sendAlertEmail for this rule.
Fires(alert, now, temperature, humidity) ==
  /\ ~DateSkip(alert, now)
  /\ ~DaySkip(alert, now)
  /\ ~TimeSkip(alert, now)
  /\ Triggered(alert, temperature, humidity)
  /\ ~Throttled(alert, now)

\* All the orders in which a select without ORDER BY can return the rows S.
Orderings(S) ==
  {q \in [1..Cardinality(S) -> S] :
      \A i, j \in 1..Cardinality(S) : q[i] = q[j] => i = j}

\* Variant of EnabledAlerts: the disabled rules of the device are selected
\* as well.
AlertsOfDevice(d) ==
  {alerts[i] : i \in {j \in DOMAIN alerts : alerts[j].deviceId = d}}

\* select * from alerts where device_id = d and enabled
EnabledAlerts(d) ==
  {alerts[i] : i \in {j \in DOMAIN alerts :
                        alerts[j].deviceId = d /\ alerts[j].enabled}}

\* The state of a chain once its loop index moved past rule idx.
Advance(pr) ==
  IF pr.idx >= Len(pr.deviceAlerts) THEN IdleProc
  ELSE [pr EXCEPT !.pc = "eval", !.idx = pr.idx + 1]

\* Variant of AfterSend: a failed send skips the update of the rule.
AfterSendSkipsUpdate(pr, ok) ==
  IF ok THEN [pr EXCEPT !.pc = "update"] ELSE Advance(pr)

\* Variant of AfterSend: a failed send ends the invocation.
AfterSendRethrows(pr, ok) ==
  IF ok THEN [pr EXCEPT !.pc = "update"] ELSE IdleProc

\* 6. Trigger Alert: sendAlertEmail catches every error of the sink and
\* returns, so the loop body goes on to the update whatever the outcome.
AfterSend(pr, ok) == [pr EXCEPT !.pc = "update"]

\* Variant of NewDate: the time the device reported, when the message of
\* the invocation carries one.
NewDateReported(pr) ==
  LET m == msgs[pr.event] IN
  IF "timestamp" \in DOMAIN m /\ m.timestamp # Null THEN Val(m.timestamp)
  ELSE clock

\* const now = new Date(): the wall clock of the server, whatever the
\* invocation pr is about.
NewDate(pr) == clock

\* checkAlerts, first await: the rules are selected and `now` is taken.
CaLoad(p) ==
  /\ procs[p].pc = "load"
  /\ \E q \in Orderings(EnabledAlerts(procs[p].deviceId)) :
       procs' = [procs EXCEPT ![p] =
                   IF q = <<>> THEN IdleProc
                   ELSE [procs[p] EXCEPT !.pc = "eval",
                                         !.now = NewDate(procs[p]),
                                         !.deviceAlerts = q, !.idx = 1]]
  /\ msgs' = [msgs EXCEPT ![procs[p].event].now = Some(NewDate(procs[p]))]
  /\ UNCHANGED <<clock, readings, alerts, sent>>
  /\ UNCHANGED aggVars

\* One iteration of the loop, up to and including sendAlertEmail (which
\* catches every error of the sink: ok is the outcome of the send).
CaEval(p) ==
  LET pr == procs[p]
      alert == pr.deviceAlerts[pr.idx]
  IN
  /\ pr.pc = "eval"
  /\ IF Fires(alert, pr.now, pr.temperature, pr.humidity)
     THEN \E ok \in BOOLEAN :
               /\ sent' = Append(sent,
                    [alertId |-> alert.id, event |-> pr.event, now |-> pr.now,
                     value |-> AlertValue(alert, pr.temperature, pr.humidity),
                     ok |-> ok])
               /\ procs' = [procs EXCEPT ![p] = AfterSend(pr, ok)]
     ELSE /\ procs' = [procs EXCEPT ![p] = Advance(pr)]
          /\ UNCHANGED sent
  /\ UNCHANGED <<clock, readings, alerts, msgs>>
  /\ UNCHANGED aggVars

\* Variant of AfterUpdate: every rule of the device of the rule is stamped.
AfterUpdateWholeDevice(alert, now) ==
  [i \in DOMAIN alerts |->
     IF alerts[i].deviceId = alert.deviceId
     THEN [alerts[i] EXCEPT !.lastTriggeredAt = Some(now)]
     ELSE alerts[i]]

\* The alerts table after
\* update alerts set last_triggered_at = now where id = alert.id.
AfterUpdate(alert, now) ==
  [i \in DOMAIN alerts |->
     IF alerts[i].id = alert.id
     THEN [alerts[i] EXCEPT !.lastTriggeredAt = Some(now)]
     ELSE alerts[i]]

\* 7. Update lastTriggeredAt.
CaUpdate(p) ==
  LET pr == procs[p] IN
  /\ pr.pc = "update"
  /\ alerts' = AfterUpdate(pr.deviceAlerts[pr.idx], pr.now)
  /\ procs' = [procs EXCEPT ![p] = Advance(pr)]
  /\ UNCHANGED <<clock, readings, sent, msgs>>
  /\ UNCHANGED aggVars

\* A call checkAlerts(deviceId, temperature, humidity).
Invoke(p, deviceId, temperature, humidity) ==
  /\ procs[p].pc = "idle"
  /\ Len(msgs) < MaxCalls
  /\ msgs' = Append(msgs, [deviceId |-> deviceId, temperature |-> temperature,
                           humidity |-> humidity, at |-> clock,
                           now |-> <<>>, prior |-> <<>>, stored |-> FALSE])
  /\ procs' = [procs EXCEPT ![p] =
                 [IdleProc EXCEPT !.pc = "load", !.event = Len(msgs) + 1,
                                  !.deviceId = deviceId,
                                  !.temperature = temperature,
                                  !.humidity = humidity]]
  /\ UNCHANGED <<clock, readings, alerts, sent>>
  /\ UNCHANGED aggVars

\* The ingestion chain of one inbound message: Change-Gate, persist, and
\* for an accepted Reading the Alert Rule Evaluator.  One message is
\* processed at a time.
Ingest(deviceId, temperature, humidity) ==
  /\ \A p \in Procs : procs[p].pc = "idle"
  /\ Len(msgs) < MaxEvents
  /\ FreshInstant(deviceId)
  /\ readings' = StoreAfterSave(temperature, deviceId, humidity)
  /\ msgs' = Append(msgs, [deviceId |-> deviceId, temperature |-> temperature,
                           humidity |-> humidity, at |-> clock,
                           now |-> <<>>, prior |-> LastRow(deviceId),
                           stored |-> Len(readings') > Len(readings)])
  /\ procs' = [procs EXCEPT ![1] =
                 IF Len(readings') > Len(readings)
                 THEN [IdleProc EXCEPT !.pc = "load", !.event = Len(msgs) + 1,
                                       !.deviceId = deviceId,
                                       !.temperature = temperature,
                                       !.humidity = humidity]
                 ELSE IdleProc]
  /\ UNCHANGED <<clock, alerts, sent>>
  /\ UNCHANGED aggVars

\* A rule as the rule-management collaborator stores it.
Rule(id, deviceId, type, min, max, enabled) ==
  [id |-> id, deviceId |-> deviceId, type |-> type,
   minThreshold |-> min, maxThreshold |-> max,
   startTime |-> <<>>, endTime |-> <<>>, startDate |-> <<>>, endDate |-> <<>>,
   daysOfWeek |-> {}, enabled |-> enabled, lastTriggeredAt |-> <<>>]

\* The rule of the end-to-end scenario: temperature, min = 21, no schedule.
RuleMin21 == Rule(1, "d1", "temperature", <<21000>>, <<>>, TRUE)

\* The rule tables the evaluator runs start from.
RuleTables ==
  { <<RuleMin21>>,
    <<Rule(1, "d1", "temperature", <<>>, <<22000>>, TRUE)>>,
    <<RuleMin21, Rule(2, "d1", "temperature", <<18000>>, <<20005>>, TRUE)>>,
    <<RuleMin21, Rule(2, "d1", "temperature", <<>>, <<20005>>, FALSE)>>,
    <<RuleMin21, Rule(2, "d2", "temperature", <<21000>>, <<>>, TRUE)>> }

AlertTemps == {20000, 20010, 22500}

AlertInit ==
  /\ aggregates = EmptyBag /\ runs = [r \in Runners |-> IdleRun] /\ runlog = <<>> /\ observed = <<>>
  /\ jobs = IdleJobs
  /\ ExtInit
  /\ clock = 0
  /\ readings = <<>>
  /\ alerts \in RuleTables
  /\ procs = [p \in Procs |-> IdleProc]
  /\ sent = <<>>
  /\ msgs = <<>>

\* The instants at which the evaluator is observed: the start, 10 minutes,
\* one second short of the cooldown, the cooldown, and 61 minutes.
Instants == {0, 600, 3599, 3600, 3660}

\* Time passes, up to a later instant, while some chain is not inside the
\* loop of checkAlerts.
AlertTick ==
  /\ \E p \in Procs : procs[p].pc \in {"idle", "load"}
  /\ \E t \in Instants : t > clock /\ t <= MaxClock /\ Tick(t - clock)

\* Sequential ingestion: message after message, each chain run to its end.
AlertNext ==
  \/ \E t \in AlertTemps : Ingest("d1", t, <<>>)
  \/ CaLoad(1)
  \/ CaEval(1)
  \/ CaUpdate(1)
  \/ AlertTick

AlertSpec == AlertInit /\ [][AlertNext]_vars

\* Two chains evaluating the rules of one device concurrently.
RaceInit ==
  /\ aggregates = EmptyBag /\ runs = [r \in Runners |-> IdleRun] /\ runlog = <<>> /\ observed = <<>>
  /\ jobs = IdleJobs
  /\ ExtInit
  /\ clock = 0
  /\ readings = <<>>
  /\ alerts \in RuleTables
  /\ procs = [p \in Procs |-> IdleProc]
  /\ sent = <<>>
  /\ msgs = <<>>

RaceNext ==
  \/ \E p \in Procs, t \in AlertTemps : Invoke(p, "d1", t, <<>>)
  \/ \E p \in Procs : CaLoad(p) \/ CaEval(p) \/ CaUpdate(p)
  \/ AlertTick

RaceSpec == RaceInit /\ [][RaceNext]_vars

\* ---------------------------------------------- the MQTT 'message' listener
MaxPayloads == 3

\* The topic the client subscribes to, and the topics a message can carry.
Topic == "heatsync/temperature"
Topics == {Topic, "heatsync/status"}

\* The text of a TemperatureMessage, token by token.
JsonText(deviceId, temperature) ==
  <<"{", "deviceId", deviceId, "temperature", temperature, "}">>

\* The payloads delivered: three messages of device d1 (20.000, 20.004 and
\* 21.000 degrees), a message cut off before its closing brace, and an
\* empty payload.
Payloads ==
  { JsonText("d1", 20000), JsonText("d1", 20004), JsonText("d1", 21000),
    <<"{", "deviceId", "d1", "temperature", 20000>>,
    <<>> }

\* JSON.parse(payload.toString()) as TemperatureMessage: the object of a
\* complete text, a SyntaxError for any other payload.
JsonParse(payload) ==
  IF /\ Len(payload) = 6
     /\ payload[1] = "{" /\ payload[2] = "deviceId"
     /\ payload[4] = "temperature" /\ payload[6] = "}"
  THEN [ok |-> TRUE, deviceId |-> payload[3], temperature |-> payload[5]]
  ELSE [ok |-> FALSE, deviceId |-> "", temperature |-> 0]

\* The listener has no try/catch and the program installs no handler for
\* uncaught exceptions: what a SyntaxError thrown out of the listener does
\* is left to the caller of emit and to the runtime, whose default is to end
\* the process.
Uncaught == {"dead", "listening"}

\* The first call slot that is free.
FreeChain(c) ==
  /\ chains[c].pc = "idle"
  /\ \A b \in Chains : b < c => chains[b].pc # "idle"

\* client.on('message', (topic, payload) => ...): parse, then start
\* saveIfChanged(data.temperature, data.deviceId) without awaiting it.
OnMessage(topic, payload) ==
  /\ listener = "listening"
  /\ Len(received) < MaxPayloads
  /\ received' = Append(received, [topic |-> topic, payload |-> payload,
                                   at |-> clock])
  /\ IF topic # Topic THEN UNCHANGED <<listener, chains>>
     ELSE IF ~JsonParse(payload).ok
     THEN listener' \in Uncaught /\ UNCHANGED chains
     ELSE /\ \E c \in Chains :
               /\ FreeChain(c)
               /\ chains' = [chains EXCEPT ![c] =
                    [pc |-> "select",
                     temperature |-> JsonParse(payload).temperature,
                     deviceId |-> JsonParse(payload).deviceId,
                     last |-> Null]]
          /\ UNCHANGED listener
  /\ UNCHANGED <<clock, readings, alerts, procs, sent, msgs, aggregates, runs,
                 runlog, observed, jobs, clients, wslog, devices, touches>>

\* saveIfChanged up to its first await: the select of the last row of the
\* device.
SicSelect(c) ==
  /\ listener = "listening"
  /\ chains[c].pc = "select"
  /\ chains' = [chains EXCEPT ![c].pc = "gate",
                              ![c].last = LastRow(chains[c].deviceId)]
  /\ UNCHANGED <<clock, readings, alerts, procs, sent, msgs, aggregates, runs,
                 runlog, observed, jobs, listener, received, clients, wslog,
                 devices, touches>>

\* saveIfChanged after the select: the comparison at two decimals, and the
\* insert of a changed value (humidity is not passed by the listener;
\* taken_at defaults to now()).
SicInsert(c) ==
  LET ch == chains[c] IN
  /\ listener = "listening"
  /\ ch.pc = "gate"
  /\ FreshInstant(ch.deviceId)
  /\ readings' =
       IF TempChanged(ch.last, ch.temperature) \/ HumidityChanged(ch.last, Null)
       THEN Append(readings, [deviceId |-> ch.deviceId,
                              temperatureC |-> ch.temperature,
                              humidity |-> Null, takenAt |-> clock])
       ELSE readings
  /\ chains' = [chains EXCEPT ![c] = IdleChain]
  /\ UNCHANGED <<clock, alerts, procs, sent, msgs, aggregates, runs, runlog,
                 observed, jobs, listener, received, clients, wslog, devices,
                 touches>>

ListenInit ==
  /\ aggregates = EmptyBag /\ runs = [r \in Runners |-> IdleRun] /\ runlog = <<>> /\ observed = <<>>
  /\ jobs = IdleJobs
  /\ ExtInit
  /\ clock = 0
  /\ readings = <<>>
  /\ alerts = <<RuleMin21>>
  /\ procs = [p \in Procs |-> IdleProc]
  /\ sent = <<>>
  /\ msgs = <<>>

\* Time passes between two inserts for one device.
ListenTick == (\E d \in Devices : ~FreshInstant(d)) /\ Tick(1)

ListenNext ==
  \/ \E topic \in Topics, payload \in Payloads : OnMessage(topic, payload)
  \/ \E c \in Chains : SicSelect(c)
  \/ \E c \in Chains : SicInsert(c)
  \/ ListenTick

ListenSpec == ListenInit /\ [][ListenNext]_vars

\* ------------------------------------------------- the websocket gateway
MaxWsEvents == 5

\* The tokens a socket presents in its handshake, as verifyToken sees them.
Tokens == {"valid", "invalid"}

\* The deviceIds arrays of the subscribe and unsubscribe messages.
DeviceLists == {<<"d1">>, <<"d2">>, <<"d1", "d2">>, <<"d2", "d2">>}

\* new Set(deviceIds).
SetOf(deviceIds) == {deviceIds[i] : i \in DOMAIN deviceIds}

\* A socket connects with a token: handleConnection starts and awaits
\* verifyToken; the socket is in server.sockets and its message handlers
\* are bound from now on.  client.data.subscribedDevices is undefined.
WsConnect(c, token) ==
  /\ ~clients[c].connected
  /\ Len(wslog) < MaxWsEvents
  /\ clients' = [clients EXCEPT ![c] =
       [NoSocket EXCEPT !.connected = TRUE, !.pc = "verifying",
                        !.token = token]]
  /\ wslog' = Append(wslog, [type |-> "connect", client |-> c,
                             deviceIds |-> <<>>, deviceId |-> "", to |-> {}])
  /\ UNCHANGED <<clock, readings, alerts, procs, sent, msgs, aggregates, runs,
                 runlog, observed, jobs, listener, chains, received, devices,
                 touches>>

\* The socket leaves: client.disconnect() or the client closing.
Gone(c) ==
  /\ clients' = [clients EXCEPT ![c] = NoSocket]
  /\ wslog' = Append(wslog, [type |-> "disconnect", client |-> c,
                             deviceIds |-> <<>>, deviceId |-> "", to |-> {}])

\* handleConnection after verifyToken: an unknown user is disconnected, a
\* known one gets client.data.subscribedDevices = new Set().
WsVerified(c) ==
  /\ clients[c].connected
  /\ clients[c].pc = "verifying"
  /\ IF clients[c].token = "valid"
     THEN /\ clients' = [clients EXCEPT ![c].pc = "idle",
                                        ![c].subscribedDevices = Some({})]
          /\ UNCHANGED wslog
     ELSE Gone(c)
  /\ UNCHANGED <<clock, readings, alerts, procs, sent, msgs, aggregates, runs,
                 runlog, observed, jobs, listener, chains, received, devices,
                 touches>>

\* The client closes the socket.
WsDisconnect(c) ==
  /\ clients[c].connected
  /\ Len(wslog) < MaxWsEvents
  /\ Gone(c)
  /\ UNCHANGED <<clock, readings, alerts, procs, sent, msgs, aggregates, runs,
                 runlog, observed, jobs, listener, chains, received, devices,
                 touches>>

\* WsAuthGuard.canActivate: its own verifyToken of the handshake token.
CanActivate(c) == clients[c].connected /\ clients[c].token = "valid"

\* 'devices:subscribe' handled, once the guard has let it through:
\* client.data.subscribedDevices = new Set(payload.deviceIds).
HandleSubscribeToDevices(c, deviceIds) ==
  /\ CanActivate(c)
  /\ Len(wslog) < MaxWsEvents
  /\ clients' = [clients EXCEPT ![c].subscribedDevices =
                                  Some(SetOf(deviceIds))]
  /\ wslog' = Append(wslog, [type |-> "subscribe", client |-> c,
                             deviceIds |-> deviceIds, deviceId |-> "",
                             to |-> {}])
  /\ UNCHANGED <<clock, readings, alerts, procs, sent, msgs, aggregates, runs,
                 runlog, observed, jobs, listener, chains, received, devices,
                 touches>>

\* 'devices:unsubscribe' handled: subscribedDevices?.delete(deviceId) for
\* each id of the payload.
HandleUnsubscribeFromDevices(c, deviceIds) ==
  /\ CanActivate(c)
  /\ Len(wslog) < MaxWsEvents
  /\ clients' = [clients EXCEPT ![c].subscribedDevices =
       IF @ = Null THEN Null ELSE Some(Val(@) \ SetOf(deviceIds))]
  /\ wslog' = Append(wslog, [type |-> "unsubscribe", client |-> c,
                             deviceIds |-> deviceIds, deviceId |-> "",
                             to |-> {}])
  /\ UNCHANGED <<clock, readings, alerts, procs, sent, msgs, aggregates, runs,
                 runlog, observed, jobs, listener, chains, received, devices,
                 touches>>

\* client.data.subscribedDevices?.has(deviceId), over server.sockets.
Subscribed(c, deviceId) ==
  /\ clients[c].connected
  /\ clients[c].subscribedDevices # Null
  /\ deviceId \in Val(clients[c].subscribedDevices)

\* broadcastTemperatureUpdate(deviceId, ...): 'temperature:update' is
\* emitted to the sockets whose set has the device; `updates` of a socket
\* are the broadcasts emitted to it, by position in the history.
BroadcastTemperatureUpdate(deviceId) ==
  /\ Len(wslog) < MaxWsEvents
  /\ clients' = [c \in Clients |->
       IF Subscribed(c, deviceId)
       THEN [clients[c] EXCEPT !.updates = @ \cup {Len(wslog) + 1}]
       ELSE clients[c]]
  /\ wslog' = Append(wslog, [type |-> "broadcast", client |-> 0,
                             deviceIds |-> <<>>, deviceId |-> deviceId,
                             to |-> {c \in Clients : Subscribed(c, deviceId)}])
  /\ UNCHANGED <<clock, readings, alerts, procs, sent, msgs, aggregates, runs,
                 runlog, observed, jobs, listener, chains, received, devices,
                 touches>>

FanoutInit ==
  /\ aggregates = EmptyBag /\ runs = [r \in Runners |-> IdleRun] /\ runlog = <<>> /\ observed = <<>>
  /\ jobs = IdleJobs
  /\ ExtInit
  /\ clock = 0
  /\ readings = <<>>
  /\ alerts = <<>>
  /\ procs = [p \in Procs |-> IdleProc]
  /\ sent = <<>>
  /\ msgs = <<>>

FanoutNext ==
  \/ \E c \in Clients, token \in Tokens : WsConnect(c, token)
  \/ \E c \in Clients : WsVerified(c)
  \/ \E c \in Clients : WsDisconnect(c)
  \/ \E c \in Clients, ids \in DeviceLists : HandleSubscribeToDevices(c, ids)
  \/ \E c \in Clients, ids \in DeviceLists :
       HandleUnsubscribeFromDevices(c, ids)
  \/ \E d \in Devices : BroadcastTemperatureUpdate(d)

FanoutSpec == FanoutInit /\ [][FanoutNext]_vars

\* --------------------------------------------------- the device registry
MaxTouchClock == 3

\* select ... from devices where id = deviceId limit 1.
FindById(deviceId) ==
  IF \E row \in devices : row.id = deviceId
  THEN Some(CHOOSE row \in devices : row.id = deviceId)
  ELSE Null

\* A call updateLastSeen(deviceId), up to its first await.
TouchCall(k, deviceId) ==
  /\ touches[k].pc = "idle"
  /\ touches' = [touches EXCEPT ![k] =
       [IdleTouch EXCEPT !.pc = "find", !.deviceId = deviceId, !.at = clock]]
  /\ UNCHANGED <<clock, readings, alerts, procs, sent, msgs, aggregates, runs,
                 runlog, observed, jobs, listener, chains, received, clients,
                 wslog, devices>>

\* const existing = await this.findById(deviceId).
TouchFind(k) ==
  /\ touches[k].pc = "find"
  /\ touches' = [touches EXCEPT ![k].existing = FindById(touches[k].deviceId),
                                ![k].pc = IF FindById(touches[k].deviceId) = Null
                                          THEN "create" ELSE "update"]
  /\ UNCHANGED <<clock, readings, alerts, procs, sent, msgs, aggregates, runs,
                 runlog, observed, jobs, listener, chains, received, clients,
                 wslog, devices>>

\* The row DevicesService.create inserts for { id, name, description }:
\* last_seen_at is not among the values and has no default.
NewDevice(deviceId, at) == [id |-> deviceId, lastSeenAt |-> Null]

\* await this.create(...): the insert; id is the primary key, so the insert
\* of an id that has a row by now fails and the call rejects.
TouchCreate(k) ==
  LET t == touches[k] IN
  /\ t.pc = "create"
  /\ IF \E row \in devices : row.id = t.deviceId
     THEN /\ touches' = [touches EXCEPT ![k].pc = "done", ![k].error = TRUE]
          /\ UNCHANGED devices
     ELSE /\ devices' = devices \cup {NewDevice(t.deviceId, t.at)}
          /\ touches' = [touches EXCEPT ![k].pc = "done"]
  /\ UNCHANGED <<clock, readings, alerts, procs, sent, msgs, aggregates, runs,
                 runlog, observed, jobs, listener, chains, received, clients,
                 wslog>>

\* update devices set last_seen_at = new Date() where id = deviceId.
TouchUpdate(k) ==
  LET t == touches[k] IN
  /\ t.pc = "update"
  /\ devices' = {IF row.id = t.deviceId
                 THEN [row EXCEPT !.lastSeenAt = Some(clock)] ELSE row :
                   row \in devices}
  /\ touches' = [touches EXCEPT ![k].pc = "done"]
  /\ UNCHANGED <<clock, readings, alerts, procs, sent, msgs, aggregates, runs,
                 runlog, observed, jobs, listener, chains, received, clients,
                 wslog>>

\* The caller has seen the call settle.
TouchReturn(k) ==
  /\ touches[k].pc = "done"
  /\ touches' = [touches EXCEPT ![k] = IdleTouch]
  /\ UNCHANGED <<clock, readings, alerts, procs, sent, msgs, aggregates, runs,
                 runlog, observed, jobs, listener, chains, received, clients,
                 wslog, devices>>

TouchInit ==
  /\ aggregates = EmptyBag /\ runs = [r \in Runners |-> IdleRun] /\ runlog = <<>> /\ observed = <<>>
  /\ jobs = IdleJobs
  /\ ExtInit
  /\ clock = 1
  /\ readings = <<>>
  /\ alerts = <<>>
  /\ procs = [p \in Procs |-> IdleProc]
  /\ sent = <<>>
  /\ msgs = <<>>

TouchTick == clock < MaxTouchClock /\ Tick(1)

TouchNext ==
  \/ \E k \in Callers, d \in Devices : TouchCall(k, d)
  \/ \E k \in Callers : TouchFind(k)
  \/ \E k \in Callers : TouchCreate(k)
  \/ \E k \in Callers : TouchUpdate(k)
  \/ \E k \in Callers : TouchReturn(k)
  \/ TouchTick

TouchSpec == TouchInit /\ [][TouchNext]_vars

\* A time of day as the rule stores it: "HH:MM".
HHMM(h, m) == PadStart2(h) \o <<58>> \o PadStart2(m)

\* A temperature rule min = 18, max = 25 with a time-of-day window.
TimedRule(startTime, endTime) ==
  [Rule(1, "d1", "temperature", <<18000>>, <<25000>>, TRUE)
     EXCEPT !.startTime = startTime, !.endTime = endTime]

\* An overnight window, a same-day window, a window of one minute, and
\* rules with only one end of the window configured.
SchedTables ==
  { <<TimedRule(HHMM(22, 0), HHMM(6, 0))>>,
    <<TimedRule(HHMM(6, 0), HHMM(22, 0))>>,
    <<TimedRule(HHMM(6, 0), HHMM(6, 0))>>,
    <<TimedRule(HHMM(22, 0), <<>>)>>,
    <<TimedRule(<<>>, HHMM(6, 0))>> }

\* 05:59:00, 06:00:00, 06:00:30, 06:01:00, 12:00:00, 21:59:00, 22:00:00,
\* 22:01:00 and 23:30:00 of one day.
SchedInstants == {21540, 21600, 21630, 21660, 43200, 79140, 79200, 79260, 84600}

SchedTemps == {25000, 26000}

SchedInit ==
  /\ aggregates = EmptyBag /\ runs = [r \in Runners |-> IdleRun] /\ runlog = <<>> /\ observed = <<>>
  /\ jobs = IdleJobs
  /\ ExtInit
  /\ clock \in SchedInstants
  /\ readings = <<>>
  /\ alerts \in SchedTables
  /\ procs = [p \in Procs |-> IdleProc]
  /\ sent = <<>>
  /\ msgs = <<>>

\* Time passes, up to a later instant of the day, between two invocations.
SchedTick ==
  /\ procs[1].pc = "idle"
  /\ \E t \in SchedInstants : t > clock /\ Tick(t - clock)

\* Invocations of checkAlerts at chosen times of day, one after another.
SchedNext ==
  \/ \E t \in SchedTemps : Invoke(1, "d1", t, <<>>)
  \/ CaLoad(1)
  \/ CaEval(1)
  \/ CaUpdate(1)
  \/ SchedTick

SchedSpec == SchedInit /\ [][SchedNext]_vars

\* A rule with a date range and a weekday set, as the rule-management
\* collaborator stores it.
CalendarRule(startDate, endDate, daysOfWeek) ==
  [Rule(1, "d1", "temperature", <<18000>>, <<25000>>, TRUE)
     EXCEPT !.startDate = startDate, !.endDate = endDate,
            !.daysOfWeek = daysOfWeek]

\* 1970-01-11 00:00:00, a Sunday, and 1970-01-13 00:00:00, a Tuesday.
RangeStart == 10 * 86400
RangeEnd == 12 * 86400

\* A date range with both ends, with one end, and weekday sets with and
\* without Sunday (0) and Tuesday (2).
CalendarTables ==
  { <<CalendarRule(<<RangeStart>>, <<RangeEnd>>, {})>>,
    <<CalendarRule(<<RangeStart>>, <<>>, {})>>,
    <<CalendarRule(<<>>, <<RangeEnd>>, {})>>,
    <<CalendarRule(<<>>, <<>>, {})>>,
    <<CalendarRule(<<>>, <<>>, {0})>>,
    <<CalendarRule(<<>>, <<>>, {1, 2})>>,
    <<CalendarRule(<<>>, <<>>, {0, 1, 2, 3, 4, 5, 6})>> }

\* Saturday 23:59:59, Sunday 00:00:00 and 12:00:00, Monday 12:00:00,
\* Tuesday 00:00:00 and 00:00:01.
CalendarInstants ==
  {RangeStart - 1, RangeStart, RangeStart + 43200, RangeStart + 129600,
   RangeEnd, RangeEnd + 1}

CalendarTemps == {20000, 26000}

CalendarInit ==
  /\ aggregates = EmptyBag /\ runs = [r \in Runners |-> IdleRun]
  /\ runlog = <<>> /\ observed = <<>>
  /\ jobs = IdleJobs
  /\ ExtInit
  /\ clock \in CalendarInstants
  /\ readings = <<>>
  /\ alerts \in CalendarTables
  /\ procs = [p \in Procs |-> IdleProc]
  /\ sent = <<>>
  /\ msgs = <<>>

\* Time passes, up to a later instant, between two invocations.
CalendarTick ==
  /\ procs[1].pc = "idle"
  /\ \E t \in CalendarInstants : t > clock /\ Tick(t - clock)

\* Invocations of checkAlerts at chosen dates, one after another.
CalendarNext ==
  \/ \E t \in CalendarTemps : Invoke(1, "d1", t, <<>>)
  \/ CaLoad(1)
  \/ CaEval(1)
  \/ CaUpdate(1)
  \/ CalendarTick

CalendarSpec == CalendarInit /\ [][CalendarNext]_vars

\* Three rules of d1, the first one for Sundays only; and a rule of d1 next
\* to a disabled rule of d1 and a rule of d2.
LoopTables ==
  { <<[RuleMin21 EXCEPT !.daysOfWeek = {0}],
      Rule(2, "d1", "temperature", <<21000>>, <<>>, TRUE),
      Rule(3, "d1", "temperature", <<>>, <<20005>>, TRUE)>>,
    <<RuleMin21,
      Rule(2, "d1", "temperature", <<21000>>, <<>>, FALSE),
      Rule(3, "d2", "temperature", <<21000>>, <<>>, TRUE)>> }

LoopTemps == {20000, 20010}

\* Thursday 00:00:00 and 00:10:00, and Sunday 00:00:00.
LoopInstants == {0, 600, 259200}

LoopInit ==
  /\ aggregates = EmptyBag /\ runs = [r \in Runners |-> IdleRun]
  /\ runlog = <<>> /\ observed = <<>>
  /\ jobs = IdleJobs
  /\ ExtInit
  /\ clock = 0
  /\ readings = <<>>
  /\ alerts \in LoopTables
  /\ procs = [p \in Procs |-> IdleProc]
  /\ sent = <<>>
  /\ msgs = <<>>

\* Time passes, up to a later instant, between two invocations.
LoopTick ==
  /\ procs[1].pc = "idle"
  /\ \E t \in LoopInstants : t > clock /\ Tick(t - clock)

\* Invocations of checkAlerts for either device, one after another.
LoopNext ==
  \/ \E d \in Devices, t \in LoopTemps : Invoke(1, d, t, <<>>)
  \/ CaLoad(1)
  \/ CaEval(1)
  \/ CaUpdate(1)
  \/ LoopTick

LoopSpec == LoopInit /\ [][LoopNext]_vars

\* Two inbound messages that differ in their device and in their advisory
\* `timestamp` only, each starting checkAlerts(deviceId, temperature,
\* humidity) at the same instant: the signature has no parameter for the
\* reported time.
MaxPairs == 2

InvokePair(temperature, stamp1, stamp2) ==
  LET msg(d, stamp) ==
        [deviceId |-> d, temperature |-> temperature, humidity |-> <<>>,
         at |-> clock, now |-> <<>>, prior |-> <<>>, stored |-> FALSE,
         timestamp |-> stamp]
      call(d, e) ==
        [IdleProc EXCEPT !.pc = "load", !.event = e, !.deviceId = d,
                         !.temperature = temperature, !.humidity = <<>>]
  IN
  /\ \A p \in Procs : procs[p].pc = "idle"
  /\ Len(msgs) < 2 * MaxPairs
  /\ msgs' = msgs \o <<msg("d1", stamp1), msg("d2", stamp2)>>
  /\ procs' = [procs EXCEPT ![1] = call("d1", Len(msgs) + 1),
                            ![2] = call("d2", Len(msgs) + 2)]
  /\ UNCHANGED <<clock, readings, alerts, sent>>
  /\ UNCHANGED aggVars

\* A rule of d1 and the same rule for d2.
Twins(rule) == <<rule, [rule EXCEPT !.id = 2, !.deviceId = "d2"]>>

\* A date range, a weekday set, a time-of-day window, and no schedule.
TwinTables ==
  { Twins(CalendarRule(<<RangeStart>>, <<RangeEnd>>, {})),
    Twins(CalendarRule(<<>>, <<>>, {1, 2})),
    Twins(TimedRule(HHMM(6, 0), HHMM(22, 0))),
    Twins(CalendarRule(<<>>, <<>>, {})) }

\* The reported times of a pair: none and the Saturday noon before the
\* range, or that Saturday noon and the Monday noon inside it.
TwinStamps ==
  { << <<>>, <<RangeStart - 43200>> >>,
    << <<RangeStart - 43200>>, <<RangeStart + 129600>> >> }

TwinInit ==
  /\ aggregates = EmptyBag /\ runs = [r \in Runners |-> IdleRun]
  /\ runlog = <<>> /\ observed = <<>>
  /\ jobs = IdleJobs
  /\ ExtInit
  /\ clock \in CalendarInstants
  /\ readings = <<>>
  /\ alerts \in TwinTables
  /\ procs = [p \in Procs |-> IdleProc]
  /\ sent = <<>>
  /\ msgs = <<>>

\* Time passes, up to a later instant, between two pairs of invocations.
TwinTick ==
  /\ \A p \in Procs : procs[p].pc = "idle"
  /\ \E t \in CalendarInstants : t > clock /\ Tick(t - clock)

\* Pairs of invocations, the steps of the two of a pair interleaving.
TwinNext ==
  \/ \E st \in TwinStamps : InvokePair(26000, st[1], st[2])
  \/ \E p \in Procs : CaLoad(p)
  \/ \E p \in Procs : CaEval(p)
  \/ \E p \in Procs : CaUpdate(p)
  \/ TwinTick

TwinSpec == TwinInit /\ [][TwinNext]_vars

\* --------------------------------------------------------------------
\* Rule creation (AlertsController.create, CreateAlertDto, validators)
\* --------------------------------------------------------------------
MaxRules == 2

\* The values a threshold of the request body can have, once transformed:
\* the key is absent, null, or a number.
JsUndefined == [tag |-> "undefined", v |-> 0]
JsNull == [tag |-> "null", v |-> 0]
JsNumber(n) == [tag |-> "number", v |-> n]

\* HasAtLeastOneThresholdConstraint.validate: a disjunction of !==.
HasAtLeastOneThresholdConstraint(object) ==
  \/ object.minThreshold # JsUndefined
  \/ object.minThreshold # JsNull
  \/ object.maxThreshold # JsUndefined
  \/ object.maxThreshold # JsNull

\* MinLessThanMaxConstraint.validate.
MinLessThanMaxConstraint(object) ==
  IF /\ object.minThreshold # JsUndefined /\ object.minThreshold # JsNull
     /\ object.maxThreshold # JsUndefined /\ object.maxThreshold # JsNull
  THEN object.minThreshold.v < object.maxThreshold.v
  ELSE TRUE

\* @IsOptional(): the validators of a property are skipped when its value
\* is undefined or null.
IsOptional(value) == value \in {JsUndefined, JsNull}

\* @IsNumber().
IsNumber(value) == value.tag = "number"

\* The ValidationPipe on CreateAlertDto, as far as the thresholds go: the
\* constraints are decorators of minThreshold.
ValidCreate(dto) ==
  /\ \/ IsOptional(dto.minThreshold)
     \/ /\ IsNumber(dto.minThreshold)
        /\ HasAtLeastOneThresholdConstraint(dto)
        /\ MinLessThanMaxConstraint(dto)
  /\ \/ IsOptional(dto.maxThreshold)
     \/ IsNumber(dto.maxThreshold)

\* A real column of the inserted row.
Column(value) == IF value.tag = "number" THEN <<value.v>> ELSE <<>>

CreateThresholds == {JsUndefined, JsNumber(18000), JsNumber(25000)}

\* POST /alerts: a body that fails validation is answered 400 and create
\* is not called; otherwise the row is inserted.
Create(dto) ==
  /\ Len(alerts) < MaxRules
  /\ IF ValidCreate(dto)
     THEN alerts' = Append(alerts,
            Rule(Len(alerts) + 1, dto.deviceId, dto.type,
                 Column(dto.minThreshold), Column(dto.maxThreshold), TRUE))
     ELSE UNCHANGED alerts
  /\ observed' = <<>>
  /\ UNCHANGED <<clock, readings, procs, sent, msgs, aggregates, runs, runlog,
                 jobs, extVars>>

CreateInit ==
  /\ aggregates = EmptyBag /\ runs = [r \in Runners |-> IdleRun]
  /\ runlog = <<>> /\ observed = <<>>
  /\ jobs = IdleJobs
  /\ ExtInit
  /\ clock = 0
  /\ readings = <<>>
  /\ alerts = <<>>
  /\ procs = [p \in Procs |-> IdleProc]
  /\ sent = <<>>
  /\ msgs = <<>>

CreateNext ==
  \E d \in Devices, ty \in {"temperature", "humidity"},
     lo \in CreateThresholds, hi \in CreateThresholds :
    Create([deviceId |-> d, type |-> ty, minThreshold |-> lo,
            maxThreshold |-> hi])

CreateSpec == CreateInit /\ [][CreateNext]_vars

\* Rules with both thresholds, one threshold, and a humidity rule.
ThreshTables ==
  { <<Rule(1, "d1", "temperature", <<18000>>, <<25000>>, TRUE)>>,
    <<Rule(1, "d1", "temperature", <<18000>>, <<>>, TRUE)>>,
    <<Rule(1, "d1", "temperature", <<>>, <<25000>>, TRUE)>>,
    <<Rule(1, "d1", "humidity", <<30000>>, <<60000>>, TRUE)>> }

\* <<temperature, humidity>> of the invocations.
ThreshInputs ==
  ({17900, 18000, 24900, 25000, 26000} \X {<<>>})
    \cup ({20000} \X {<<29900>>, <<30000>>, <<60000>>, <<61000>>})

ThreshInit ==
  /\ aggregates = EmptyBag /\ runs = [r \in Runners |-> IdleRun] /\ runlog = <<>> /\ observed = <<>>
  /\ jobs = IdleJobs
  /\ ExtInit
  /\ clock = 0
  /\ readings = <<>>
  /\ alerts \in ThreshTables
  /\ procs = [p \in Procs |-> IdleProc]
  /\ sent = <<>>
  /\ msgs = <<>>

\* One cooldown passes between two invocations.
ThreshTick ==
  /\ procs[1].pc = "idle"
  /\ clock = 0
  /\ Tick(Cooldown)

\* Invocations of checkAlerts with values around the thresholds.
ThreshNext ==
  \/ \E in \in ThreshInputs : Invoke(1, "d1", in[1], in[2])
  \/ CaLoad(1)
  \/ CaEval(1)
  \/ CaUpdate(1)
  \/ ThreshTick

ThreshSpec == ThreshInit /\ [][ThreshNext]_vars

\* ====================================================================
\* Aggregator (TemperatureService.aggregateAndStore, getAggregates)
\* ====================================================================
Grans == {"1m", "5m", "1h", "6h", "1d"}

\* The field handed to date_trunc for each granularity.
DateTruncField(g) ==
  CASE g = "1m" -> "minute" [] g = "5m" -> "minute" [] g = "1h" -> "hour"
    [] g = "6h" -> "hour" [] g = "1d" -> "day"

\* date_trunc(field, t), the session time zone being UTC.
DateTrunc(field, t) ==
  CASE field = "minute" -> t - (t % 60)
    [] field = "hour" -> t - (t % 3600)
    [] field = "day" -> t - (t % 86400)

\* Variant of BucketStart: "5m" and "6h" are truncated like "1m" and "1h".
BucketStartTruncOnly(g, t) == DateTrunc(DateTruncField(g), t)

\* The bucketStart expression of granularity g for a row taken at t.
BucketStart(g, t) ==
  IF g = "5m" THEN (t \div 300) * 300
  ELSE IF g = "6h" THEN (t \div 21600) * 21600
  ELSE DateTrunc(DateTruncField(g), t)

\* gte(column, from) and lte(column, to).
InRange(t, from, to) == from <= t /\ t <= to

\* The rows of the Reading Store selected by `where` for device d.
RangeRows(d, from, to) ==
  {i \in RowsOf(d) : InRange(readings[i].takenAt, from, to)}

\* The k-th smallest temperature among the rows I (k in 1..|I|).
KthTemp(I, k) ==
  CHOOSE v \in {readings[i].temperatureC : i \in I} :
    /\ Cardinality({i \in I : readings[i].temperatureC < v}) < k
    /\ k <= Cardinality({i \in I : readings[i].temperatureC <= v})

\* Variant of Median: percentile_disc(0.5), the lower of the two middle
\* values of an even count.
MedianDisc(I) == KthTemp(I, (Cardinality(I) + 1) \div 2)

\* percentile_cont(0.5) within group (order by temperature_c) over rows I:
\* the middle value, or the mean of the two middle values (the sample
\* temperatures are even, so the mean is exact).
Median(I) ==
  LET n == Cardinality(I) IN
  IF n % 2 = 1 THEN KthTemp(I, (n + 1) \div 2)
  ELSE (KthTemp(I, n \div 2) + KthTemp(I, (n \div 2) + 1)) \div 2

\* `values`: one row per bucket start among the selected rows of device d.
BucketValues(d, g, from, to) ==
  LET I == RangeRows(d, from, to) IN
  {[bucketStart |-> b, granularity |-> g,
    medianC |-> Median({i \in I : BucketStart(g, readings[i].takenAt) = b}),
    deviceId |-> d] :
      b \in {BucketStart(g, readings[i].takenAt) : i \in I}}

\* Variant of Doomed: the delete does not filter on the device.
DoomedAnyDevice(r, d, g, from, to) ==
  /\ InRange(r.bucketStart, from, to)
  /\ r.granularity = g

\* The rows matched by the delete of device d.
Doomed(r, d, g, from, to) ==
  /\ InRange(r.bucketStart, from, to)
  /\ r.granularity = g
  /\ r.deviceId = d

\* A bag without the rows that satisfy Doomed.
AfterDelete(B, d, g, from, to) ==
  [r \in {x \in DOMAIN B : ~Doomed(x, d, g, from, to)} |-> B[r]]

\* selectDistinct deviceId where taken_at in range, in any order.
AggBegin(r, g, from, to) ==
  LET rn == runs[r] IN
  /\ rn.pc = "idle"
  /\ \E q \in Orderings({d \in Devices : RangeRows(d, from, to) # {}}) :
       IF q = <<>>
       THEN /\ runlog' = Append(runlog,
                 [granularity |-> g, from |-> from, to |-> to,
                  completed |-> TRUE, nStart |-> Len(readings),
                  nEnd |-> Len(readings), before |-> aggregates,
                  after |-> aggregates, pc |-> "idle", values |-> {},
                  deviceId |-> ""])
            /\ UNCHANGED runs
       ELSE /\ runs' = [runs EXCEPT ![r] =
                         [IdleRun EXCEPT !.pc = "rows", !.granularity = g,
                                         !.from = from, !.to = to,
                                         !.deviceIds = q, !.idx = 1,
                                         !.before = aggregates,
                                         !.nReadings = Len(readings)]]
            /\ UNCHANGED runlog
  /\ observed' = <<>>
  /\ UNCHANGED <<clock, readings, alerts, procs, sent, msgs, aggregates, extVars>>

\* An invocation made outside the cron handlers, at most MaxRuns of them.
AggStartBy(r, g, from, to) ==
  /\ Len(runlog) < MaxRuns
  /\ AggBegin(r, g, from, to)
  /\ UNCHANGED <<jobs, extVars>>

\* The grouped select of the current device; no row means `continue`.
AggSelectBy(r) ==
  LET rn == runs[r]
      d == rn.deviceIds[rn.idx]
      v == BucketValues(d, rn.granularity, rn.from, rn.to)
  IN
  /\ rn.pc = "rows"
  /\ runs' = [runs EXCEPT ![r] =
                IF v # {} THEN [rn EXCEPT !.pc = "delete", !.values = v]
                ELSE IF rn.idx < Len(rn.deviceIds)
                     THEN [rn EXCEPT !.idx = rn.idx + 1]
                     ELSE IdleRun]
  /\ runlog' = IF v = {} /\ rn.idx >= Len(rn.deviceIds)
               THEN Append(runlog,
                 [granularity |-> rn.granularity, from |-> rn.from,
                  to |-> rn.to, completed |-> TRUE,
                  nStart |-> rn.nReadings, nEnd |-> Len(readings),
                  before |-> rn.before, after |-> aggregates,
                  pc |-> "idle", values |-> {}, deviceId |-> ""])
               ELSE runlog
  /\ observed' = <<>>
  /\ UNCHANGED <<clock, readings, alerts, procs, sent, msgs, aggregates, jobs, extVars>>

\* delete from temperature_aggregates where bucket_start in range and
\* granularity and device match.
AggDeleteBy(r) ==
  LET rn == runs[r] IN
  /\ rn.pc = "delete"
  /\ aggregates' = AfterDelete(aggregates, rn.deviceIds[rn.idx],
                               rn.granularity, rn.from, rn.to)
  /\ runs' = [runs EXCEPT ![r] = [rn EXCEPT !.pc = "insert"]]
  /\ observed' = <<>>
  /\ UNCHANGED <<clock, readings, alerts, procs, sent, msgs, runlog, jobs, extVars>>

\* insert into temperature_aggregates values (...); then the next device,
\* or the end of the run.
AggInsertBy(r) ==
  LET rn == runs[r] IN
  /\ rn.pc = "insert"
  /\ aggregates' = aggregates (+) SetToBag(rn.values)
  /\ runs' = [runs EXCEPT ![r] =
                IF rn.idx < Len(rn.deviceIds)
                THEN [rn EXCEPT !.pc = "rows", !.idx = rn.idx + 1, !.values = {}]
                ELSE IdleRun]
  /\ runlog' = IF rn.idx >= Len(rn.deviceIds)
               THEN Append(runlog,
                 [granularity |-> rn.granularity, from |-> rn.from,
                  to |-> rn.to, completed |-> TRUE,
                  nStart |-> rn.nReadings, nEnd |-> Len(readings),
                  before |-> rn.before, after |-> aggregates',
                  pc |-> "idle", values |-> {}, deviceId |-> ""])
               ELSE runlog
  /\ observed' = <<>>
  /\ UNCHANGED <<clock, readings, alerts, procs, sent, msgs, jobs, extVars>>

\* A database call of the run throws, or the process stops: the run ends
\* where it is (there is no transaction to roll back).
AggAbortBy(r) ==
  LET rn == runs[r] IN
  /\ rn.pc # "idle"
  /\ runlog' = Append(runlog,
       [granularity |-> rn.granularity, from |-> rn.from, to |-> rn.to,
        completed |-> FALSE, nStart |-> rn.nReadings, nEnd |-> Len(readings),
        before |-> rn.before, after |-> aggregates,
        pc |-> rn.pc, values |-> rn.values,
        deviceId |-> rn.deviceIds[rn.idx]])
  /\ runs' = [runs EXCEPT ![r] = IdleRun]
  /\ observed' = <<>>
  /\ UNCHANGED <<clock, readings, alerts, procs, sent, msgs, aggregates, jobs, extVars>>

\* The invocations of the first runner.
AggStart(g, from, to) == AggStartBy(1, g, from, to)
AggSelect == AggSelectBy(1)
AggDelete == AggDeleteBy(1)
AggInsert == AggInsertBy(1)
AggAbort == AggAbortBy(1)

\* The rows getAggregates(deviceId, granularity, from, to) returns, as a bag.
AggregatesResult(d, g, from, to) ==
  [r \in {x \in DOMAIN aggregates :
            x.deviceId = d /\ x.granularity = g
            /\ InRange(x.bucketStart, from, to)} |-> aggregates[r]]

\* A reader calls getAggregates; the observation keeps what the run in
\* progress was doing at that moment.
GetAggregates(d, g, from, to) ==
  /\ observed' = <<[deviceId |-> d, granularity |-> g, from |-> from, to |-> to,
                    result |-> AggregatesResult(d, g, from, to),
                    runPc |-> run.pc, runGranularity |-> run.granularity,
                    runDevice |-> IF run.pc = "idle" THEN ""
                                  ELSE run.deviceIds[run.idx],
                    before |-> run.before, pending |-> run.values]>>
  /\ UNCHANGED <<clock, readings, alerts, procs, sent, msgs, aggregates, runs, runlog, jobs, extVars>>

\* The readings, windows and instants of the Aggregator runs.
AggInputs ==
  {[deviceId |-> "d1", temperature |-> t, humidity |-> <<>>] : t \in {20000, 22000}}
  \cup {[deviceId |-> "d2", temperature |-> 20000, humidity |-> <<>>]}
AggWindows == {<<0, 60>>, <<30, 60>>}
\* The granularities the runs are started with: both date_trunc paths and
\* one epoch-floor path (within MaxAggClock, "1h" and "6h" bucket as "1d").
AggGrans == {"1m", "5m", "1d"}

AggInit ==
  /\ aggregates = EmptyBag /\ runs = [r \in Runners |-> IdleRun] /\ runlog = <<>> /\ observed = <<>>
  /\ jobs = IdleJobs
  /\ ExtInit
  /\ clock = 0
  /\ readings = <<>>
  /\ alerts = <<>>
  /\ procs = [p \in Procs |-> IdleProc]
  /\ sent = <<>>
  /\ msgs = <<>>

\* Thirty seconds pass between two database calls of the scheduler.
AggTick == run.pc \in {"idle", "rows"} /\ clock + 30 <= MaxAggClock /\ Tick(30)

\* A reading arrives while the Aggregator is scheduled.
AggSave ==
  /\ Len(msgs) < MaxAggReadings
  /\ \E m \in AggInputs : SaveIfChanged(m.temperature, m.deviceId, m.humidity)

\* A reader asks for the window of the run in progress.
AggRead ==
  /\ run.pc # "idle"
  /\ \E d \in Devices : GetAggregates(d, run.granularity, run.from, run.to)

AggNext ==
  \/ AggSave
  \/ \E g \in AggGrans, w \in AggWindows : AggStart(g, w[1], w[2])
  \/ AggSelect
  \/ AggDelete
  \/ AggInsert
  \/ AggAbort
  \/ AggRead
  \/ AggTick

AggSpec == AggInit /\ [][AggNext]_vars

\* Runs of the Aggregator that end normally, over the first minute, with
\* readings taken at the ends of the window.
WindowNext ==
  \/ AggSave
  \/ \E g \in {"1m", "5m"}, w \in AggWindows : AggStart(g, w[1], w[2])
  \/ AggSelect
  \/ AggDelete
  \/ AggInsert
  \/ AggTick

WindowSpec == AggInit /\ [][WindowNext]_vars

\* The instants the bucket starts are computed for: the two ends of the
\* first minute, 5 minutes, hour, 6 hours and day; 12:07:31 of the first
\* and of the second day; 05:59:59 of the second day; 2023-11-14 22:13:20.
BucketTimes ==
  {59, 60, 299, 300, 3599, 3600, 21599, 21600, 43651, 86399, 86400,
   107999, 130051, 1700000000}

BucketInit ==
  /\ aggregates = EmptyBag /\ runs = [r \in Runners |-> IdleRun] /\ runlog = <<>> /\ observed = <<>>
  /\ jobs = IdleJobs
  /\ ExtInit
  /\ clock \in BucketTimes
  /\ readings = <<>>
  /\ alerts = <<>>
  /\ procs = [p \in Procs |-> IdleProc]
  /\ sent = <<>>
  /\ msgs = <<>>

\* Readings are stored at the chosen instant and runs of every granularity
\* bucket them.
BucketNext ==
  \/ AggSave
  \/ \E g \in Grans : AggStart(g, 0, clock)
  \/ AggSelect
  \/ AggDelete
  \/ AggInsert

BucketSpec == BucketInit /\ [][BucketNext]_vars

\* Runs of the Aggregator over Readings that do not change during a run:
\* up to four instants 30 s apart, three temperatures for d1, a window that
\* ends after the last instant.
MedianInputs ==
  {[deviceId |-> "d1", temperature |-> t, humidity |-> <<>>] :
     t \in {20000, 22000, 26000}}

\* The store holds one Reading of d2, taken at the first instant.
MedianInit ==
  /\ aggregates = EmptyBag /\ runs = [r \in Runners |-> IdleRun] /\ runlog = <<>> /\ observed = <<>>
  /\ jobs = IdleJobs
  /\ ExtInit
  /\ clock = 0
  /\ readings = <<[deviceId |-> "d2", temperatureC |-> 20000,
                   humidity |-> <<>>, takenAt |-> 0]>>
  /\ alerts = <<>>
  /\ procs = [p \in Procs |-> IdleProc]
  /\ sent = <<>>
  /\ msgs = <<>>

MedianSave ==
  /\ run.pc = "idle"
  /\ Len(msgs) < MaxMedianReadings
  /\ \E m \in MedianInputs : SaveIfChanged(m.temperature, m.deviceId, m.humidity)

MedianTick == run.pc = "idle" /\ clock + 30 <= MaxMedianClock /\ Tick(30)

MedianNext ==
  \/ MedianSave
  \/ \E g \in {"1m", "5m"} : AggStart(g, 0, 120)
  \/ AggSelect
  \/ AggDelete
  \/ AggInsert
  \/ MedianTick

MedianSpec == MedianInit /\ [][MedianNext]_vars

\* The aggregates after the loop of one invocation went through the
\* devices q with nothing else running: per device the grouped select,
\* `continue` on no row, else the delete and the insert.
RECURSIVE RunOver(_, _, _, _, _)
RunOver(B, q, g, from, to) ==
  IF q = <<>> THEN B
  ELSE LET d == Head(q)
           v == BucketValues(d, g, from, to)
       IN RunOver(IF v = {} THEN B
                  ELSE AfterDelete(B, d, g, from, to) (+) SetToBag(v),
                  Tail(q), g, from, to)

\* The aggregates after aggregateAndStore(g, from, to) ran alone on B.
RunAlone(B, g, from, to) ==
  RunOver(B, CHOOSE q \in Orderings({d \in Devices : RangeRows(d, from, to) # {}}) : TRUE,
          g, from, to)

\* Readings of d1 at 0, 30 and 90 s and of d2 at 90 s.
FrameReadings ==
  <<[deviceId |-> "d1", temperatureC |-> 20000, humidity |-> <<>>, takenAt |-> 0],
    [deviceId |-> "d1", temperatureC |-> 22000, humidity |-> <<>>, takenAt |-> 30],
    [deviceId |-> "d1", temperatureC |-> 26000, humidity |-> <<>>, takenAt |-> 90],
    [deviceId |-> "d2", temperatureC |-> 20000, humidity |-> <<>>, takenAt |-> 90]>>

FrameWindows == {<<0, 30>>, <<30, 120>>, <<0, 120>>}

\* The store after the 1m and the 5m run over [0, 120] of these Readings,
\* two seconds after the last Reading.
FrameInit ==
  /\ clock = 92
  /\ readings = FrameReadings
  /\ aggregates = RunAlone(RunAlone(EmptyBag, "1m", 0, 120), "5m", 0, 120)
  /\ runs = [r \in Runners |-> IdleRun] /\ runlog = <<>> /\ observed = <<>>
  /\ jobs = IdleJobs
  /\ ExtInit
  /\ alerts = <<>>
  /\ procs = [p \in Procs |-> IdleProc]
  /\ sent = <<>>
  /\ msgs = <<>>

\* The invocations started or in progress.
RunsBegun == Len(runlog) + Cardinality({r \in Runners : runs[r].pc # "idle"})

\* Two schedulers, each with at most one invocation in progress, the steps
\* of which interleave.
FrameRunners == {1, 2}

FrameNext ==
  \/ \E r \in FrameRunners, g \in {"1m", "5m"}, w \in FrameWindows :
       RunsBegun < MaxRuns /\ AggStartBy(r, g, w[1], w[2])
  \/ \E r \in FrameRunners : AggSelectBy(r)
  \/ \E r \in FrameRunners : AggDeleteBy(r)
  \/ \E r \in FrameRunners : AggInsertBy(r)

FrameSpec == FrameInit /\ [][FrameNext]_vars

\* ---------------------------------------------------------------------
\* AggregationScheduler: the three cron handlers.
\* ---------------------------------------------------------------------

\* The period of the cron expression of a handler, in seconds:
\* EVERY_MINUTE, EVERY_HOUR, EVERY_DAY_AT_MIDNIGHT.
TierPeriod(tier) ==
  CASE tier = "minute" -> 60
    [] tier = "hour" -> 60 * 60
    [] tier = "day" -> 24 * 60 * 60

\* to.getTime() - from.getTime() of a handler, in seconds.
TierWindowOnePeriod(tier) == TierPeriod(tier)

TierWindow(tier) ==
  CASE tier = "minute" -> 15 * 60
    [] tier = "hour" -> 6 * 60 * 60
    [] tier = "day" -> 2 * 24 * 60 * 60

\* The granularities a handler aggregates, in the order of its awaits.
TierGrans(tier) ==
  CASE tier = "minute" -> <<"1m", "5m">>
    [] tier = "hour" -> <<"1h", "6h">>
    [] tier = "day" -> <<"1d">>

\* Each handler awaits its calls, so it has one invocation at a time.
RunnerOf(tier) ==
  CASE tier = "minute" -> 1
    [] tier = "hour" -> 2
    [] tier = "day" -> 3

\* The latest instant of the cron expression of a handler.
LastTick(tier) == clock - (clock % TierPeriod(tier))

\* A tick of a handler has passed and has not fired it yet.
Due(tier) == jobs[tier].last < LastTick(tier)

\* The tick fires the handler: `to = new Date()`, read when the handler
\* runs, `from`, and the first call of aggregateAndStore up to its first
\* await.
CronFire(tier) ==
  /\ Due(tier)
  /\ jobs[tier].call = 0
  /\ jobs' = [jobs EXCEPT ![tier] =
                [call |-> 1, to |-> clock, last |-> LastTick(tier)]]
  /\ AggBegin(RunnerOf(tier), TierGrans(tier)[1],
              clock - TierWindow(tier), clock)

\* The awaited call has returned and the handler makes its next call, with
\* the `from` and `to` it computed when it was fired.
CronContinue(tier) ==
  LET job == jobs[tier] IN
  /\ job.call >= 1
  /\ job.call < Len(TierGrans(tier))
  /\ runs[RunnerOf(tier)].pc = "idle"
  /\ jobs' = [jobs EXCEPT ![tier].call = job.call + 1]
  /\ AggBegin(RunnerOf(tier), TierGrans(tier)[job.call + 1],
              job.to - TierWindow(tier), job.to)

\* The last awaited call has returned and the handler returns.
CronReturn(tier) ==
  LET job == jobs[tier] IN
  /\ job.call = Len(TierGrans(tier))
  /\ runs[RunnerOf(tier)].pc = "idle"
  /\ jobs' = [jobs EXCEPT ![tier].call = 0]
  /\ UNCHANGED <<clock, readings, alerts, procs, sent, msgs, aggregates,
                 runs, runlog, observed, extVars>>

\* The instants at which the handlers run: midnight of day 2 and of day 3,
\* the hour after the first, and one second after the tick of the minute
\* after the first.
CronInstants == {172800, 172861, 176400, 259200}

\* One Reading, in the daily window of both midnights only.
CronInit ==
  /\ clock = 172800
  /\ readings = <<[deviceId |-> "d2", temperatureC |-> 20000,
                   humidity |-> <<>>, takenAt |-> 100000]>>
  /\ aggregates = EmptyBag /\ runs = [r \in Runners |-> IdleRun]
  /\ runlog = <<>> /\ observed = <<>>
  /\ jobs = IdleJobs
  /\ ExtInit
  /\ alerts = <<>>
  /\ procs = [p \in Procs |-> IdleProc]
  /\ sent = <<>>
  /\ msgs = <<>>

\* Time passes to the next instant once the handlers fired have returned.
CronTick ==
  /\ \A tier \in Tiers : ~Due(tier) /\ jobs[tier].call = 0
  /\ \E t \in CronInstants :
       /\ t > clock
       /\ \A u \in CronInstants : u > clock => t <= u
       /\ Tick(t - clock)

CronNext ==
  \/ \E tier \in Tiers : CronFire(tier)
  \/ \E tier \in Tiers : CronContinue(tier)
  \/ \E tier \in Tiers : CronReturn(tier)
  \/ \E r \in Runners : AggSelectBy(r)
  \/ \E r \in Runners : AggDeleteBy(r)
  \/ \E r \in Runners : AggInsertBy(r)
  \/ CronTick

CronSpec == CronInit /\ [][CronNext]_vars

\* A late Reading between two hourly ticks: the service came up after
\* midnight with one Reading of d1 stored at 05:00; the ticks of 05:00 and
\* of 05:59 are served on time, the tick of 06:00 on time or one second
\* late, and a second Reading of d1 is stored at 05:59.
HealInstants == {18000, 21540, 21600, 21601}

HealInit ==
  /\ clock = 18000
  /\ readings = <<[deviceId |-> "d1", temperatureC |-> 20000,
                   humidity |-> <<>>, takenAt |-> 18000]>>
  /\ aggregates = EmptyBag /\ runs = [r \in Runners |-> IdleRun]
  /\ runlog = <<>> /\ observed = <<>>
  /\ jobs = [t \in Tiers |-> [IdleJob EXCEPT !.last = 0]]
  /\ ExtInit
  /\ alerts = <<>>
  /\ procs = [p \in Procs |-> IdleProc]
  /\ sent = <<>>
  /\ msgs = <<>>

HealSave == clock = 21540 /\ msgs = <<>> /\ SaveIfChanged(26000, "d1", <<>>)

\* Time passes to the next instant once the handlers fired have returned;
\* the handlers of the tick of 06:00 run at 06:00:00 or at 06:00:01.
HealTick ==
  /\ \A tier \in Tiers : ~Due(tier) /\ jobs[tier].call = 0
  /\ \E t \in HealInstants :
       /\ \/ clock = 18000 /\ t = 21540
          \/ clock = 21540 /\ t >= 21600
       /\ Tick(t - clock)

HealNext ==
  \/ HealSave
  \/ \E tier \in Tiers : CronFire(tier)
  \/ \E tier \in Tiers : CronContinue(tier)
  \/ \E tier \in Tiers : CronReturn(tier)
  \/ \E r \in Runners : AggSelectBy(r)
  \/ \E r \in Runners : AggDeleteBy(r)
  \/ \E r \in Runners : AggInsertBy(r)
  \/ HealTick

HealSpec == HealInit /\ [][HealNext]_vars

\* The handlers of 07:00 and of 07:01 on a store that holds two Readings of
\* d1 (00:30 and 05:00) and two of d2 (06:45:20 and 06:46:40): the window
\* of the hourly handler starts at 01:00, inside the 6h bucket of 00:00, and
\* the window of the 07:01 handler at 06:46, inside the 5m bucket of 06:45.
\* The daily handler has served the tick of midnight.
EdgeTemps == {20000, 26000}

EdgeInit ==
  /\ clock = 7 * 3600
  /\ \E a \in EdgeTemps :
       readings =
         <<[deviceId |-> "d1", temperatureC |-> a, humidity |-> <<>>,
            takenAt |-> 1800],
           [deviceId |-> "d1", temperatureC |-> 26000, humidity |-> <<>>,
            takenAt |-> 18000],
           [deviceId |-> "d2", temperatureC |-> 20000, humidity |-> <<>>,
            takenAt |-> 24320],
           [deviceId |-> "d2", temperatureC |-> 26000, humidity |-> <<>>,
            takenAt |-> 24400]>>
  /\ aggregates = EmptyBag /\ runs = [r \in Runners |-> IdleRun]
  /\ runlog = <<>> /\ observed = <<>>
  /\ jobs = [IdleJobs EXCEPT !["day"].last = 0]
  /\ ExtInit
  /\ alerts = <<>>
  /\ procs = [p \in Procs |-> IdleProc]
  /\ sent = <<>>
  /\ msgs = <<>>

\* A minute passes once the handlers of 07:00 have returned.
EdgeTick ==
  /\ \A tier \in Tiers : ~Due(tier) /\ jobs[tier].call = 0
  /\ clock = 7 * 3600
  /\ Tick(TierPeriod("minute"))

EdgeNext ==
  \/ \E tier \in Tiers : CronFire(tier)
  \/ \E tier \in Tiers : CronContinue(tier)
  \/ \E tier \in Tiers : CronReturn(tier)
  \/ \E r \in Runners : AggSelectBy(r)
  \/ \E r \in Runners : AggDeleteBy(r)
  \/ \E r \in Runners : AggInsertBy(r)
  \/ EdgeTick

EdgeSpec == EdgeInit /\ [][EdgeNext]_vars

\* The minute handler fired at 00:15 and fired again at 00:16 while its
\* first run may still be in progress: each handler calls
\* aggregateAndStore('1m', to - 15 min, to) with `to` the instant it runs.
\* d1 has Readings at 00:01:40 and 00:14:30, d2 one at 00:08:20.
OverlapTemps == {20000, 26000}

OverlapInit ==
  /\ clock = 15 * 60
  /\ \E a \in OverlapTemps :
       readings =
         <<[deviceId |-> "d1", temperatureC |-> a, humidity |-> <<>>,
            takenAt |-> 100],
           [deviceId |-> "d2", temperatureC |-> 20000, humidity |-> <<>>,
            takenAt |-> 500],
           [deviceId |-> "d1", temperatureC |-> 26000, humidity |-> <<>>,
            takenAt |-> 870]>>
  /\ aggregates = EmptyBag /\ runs = [r \in Runners |-> IdleRun]
  /\ runlog = <<>> /\ observed = <<>>
  /\ jobs = IdleJobs
  /\ ExtInit
  /\ alerts = <<>>
  /\ procs = [p \in Procs |-> IdleProc]
  /\ sent = <<>>
  /\ msgs = <<>>

\* The tick fires the minute handler, whether or not the handler of the
\* tick before has returned: the first call of the handler.
OverlapFire(r) ==
  /\ RunsBegun < MaxRuns
  /\ \A k \in 1..Len(runlog) : runlog[k].to < clock
  /\ \A s \in Runners : runs[s].pc # "idle" => runs[s].to < clock
  /\ AggStartBy(r, TierGrans("minute")[1], clock - TierWindow("minute"),
                clock)

\* The next tick of the minute.
OverlapTick ==
  /\ clock = 15 * 60
  /\ RunsBegun >= 1
  /\ Tick(TierPeriod("minute"))

OverlapNext ==
  \/ \E r \in FrameRunners : OverlapFire(r)
  \/ \E r \in FrameRunners : AggSelectBy(r)
  \/ \E r \in FrameRunners : AggDeleteBy(r)
  \/ \E r \in FrameRunners : AggInsertBy(r)
  \/ OverlapTick

OverlapSpec == OverlapInit /\ [][OverlapNext]_vars

\* The three writers side by side: saveIfChanged, one Aggregator run at a
\* time over the first minute, and checkAlerts invocations of device d1.
StoreInit ==
  /\ aggregates = EmptyBag /\ runs = [r \in Runners |-> IdleRun] /\ runlog = <<>> /\ observed = <<>>
  /\ jobs = IdleJobs
  /\ ExtInit
  /\ clock = 0
  /\ readings = <<>>
  /\ alerts = <<RuleMin21>>
  /\ procs = [p \in Procs |-> IdleProc]
  /\ sent = <<>>
  /\ msgs = <<>>

StoreTick == clock + 30 <= MaxAggClock /\ Tick(30)

StoreNext ==
  \/ \E t \in {20000, 22000} : SaveIfChanged(t, "d1", <<>>)
  \/ Invoke(2, "d1", 20000, <<>>)
  \/ CaLoad(2)
  \/ CaEval(2)
  \/ CaUpdate(2)
  \/ AggStart("1m", 0, 60)
  \/ AggSelect
  \/ AggDelete
  \/ AggInsert
  \/ StoreTick

StoreSpec == StoreInit /\ [][StoreNext]_vars

\* ====================================================================
\* Aggregator
\* ====================================================================
\* The rows of bag B of device d and granularity g that start in [from, to].
Window(B, d, g, from, to) ==
  [r \in {x \in DOMAIN B : Doomed(x, d, g, from, to)} |-> B[r]]

\* No two rows of bag B share (device, granularity, bucket start).
UniqueBuckets(B) ==
  \A r1 \in DOMAIN B :
    /\ B[r1] = 1
    /\ \A r2 \in DOMAIN B :
         (/\ r1.deviceId = r2.deviceId
          /\ r1.granularity = r2.granularity
          /\ r1.bucketStart = r2.bucketStart) => r1 = r2

\* C2 (idempotence): two completed runs in a row with the same granularity
\* and window, over a Reading set that did not change, leave the same
\* bucket set (same starts, same medians, same count).
C2_Idempotent ==
  \A k \in 1..(Len(runlog) - 1) :
    LET a == runlog[k]
        b == runlog[k + 1]
    IN
    (/\ a.completed /\ b.completed
     /\ a.granularity = b.granularity /\ a.from = b.from /\ a.to = b.to
     /\ a.nStart = b.nEnd)
    => b.after = a.after

\* C3 (bucket uniqueness): after completed runs only, no two buckets share
\* (device, granularity, bucket start), and every bucket of a device in the
\* recomputed buckets' place carries the recomputed median.
C3_UniqueBuckets ==
  (run.pc = "idle" /\ \A k \in 1..Len(runlog) : runlog[k].completed)
  => /\ UniqueBuckets(aggregates)
     /\ (Len(runlog) > 0 /\ runlog[Len(runlog)].nStart = Len(readings))
        => LET e == runlog[Len(runlog)] IN
           \A d \in Devices :
             \A v \in BucketValues(d, e.granularity, e.from, e.to) :
               \A r \in DOMAIN aggregates :
                 (/\ r.deviceId = d /\ r.granularity = e.granularity
                  /\ r.bucketStart = v.bucketStart) => r = v

\* C4 (atomic replace): a getAggregates call made while the run is between
\* the delete and the insert of a device still sees a bucket for every
\* bucket start of its range that had a bucket before the run and is
\* being recomputed.
C4_NoObservableGap ==
  observed # <<>> =>
    LET o == observed[1] IN
    (/\ o.runPc = "insert"
     /\ o.runDevice = o.deviceId
     /\ o.runGranularity = o.granularity)
    => \A v \in o.pending :
         (/\ InRange(v.bucketStart, o.from, o.to)
          /\ \E r \in DOMAIN o.before :
               /\ r.deviceId = v.deviceId /\ r.granularity = v.granularity
               /\ r.bucketStart = v.bucketStart)
         => \E r \in DOMAIN o.result : r.bucketStart = v.bucketStart

\* C5 (abort): when a run aborts, no (device, granularity, bucket start) has
\* more than one bucket, and the buckets of every device in the window are
\* either the ones present before the run or the recomputed ones.
C5_AbortLeavesOldOrNew ==
  (/\ Len(runlog) > 0
   /\ run.pc = "idle"
   /\ ~runlog[Len(runlog)].completed
   /\ runlog[Len(runlog)].nEnd = Len(readings)
   /\ runlog[Len(runlog)].after = aggregates)
  => LET e == runlog[Len(runlog)] IN
     /\ UniqueBuckets(aggregates)
     /\ \A d \in Devices :
          LET now == Window(aggregates, d, e.granularity, e.from, e.to)
              old == Window(e.before, d, e.granularity, e.from, e.to)
              new == SetToBag({v \in BucketValues(d, e.granularity, e.from, e.to) :
                                 InRange(v.bucketStart, e.from, e.to)})
          IN now = old \/ now = new

\* ====================================================================
\* Alert Rule Evaluator
\* ====================================================================
\* C1 (throttle race): two notifications of one rule are never sent by
\* evaluations less than one cooldown apart, however the invocations of
\* checkAlerts interleave.
C1_AtMostOneFirePerCooldown ==
  \A i, j \in 1..Len(sent) :
    (i < j /\ sent[i].alertId = sent[j].alertId)
    => (sent[j].now - sent[i].now >= Cooldown
        \/ sent[i].now - sent[j].now >= Cooldown)

\* The end-to-end scenario: the only rule is the enabled temperature rule
\* min = 21 without schedule, the messages [20.00, 20.00, 20.01, 22.50] of
\* d1 were ingested in this order from an empty store, and the last chain
\* has ended.
E2EScenario ==
  /\ Len(alerts) = 1
  /\ [alerts[1] EXCEPT !.lastTriggeredAt = <<>>] = RuleMin21
  /\ Len(msgs) = 4
  /\ [i \in 1..4 |-> msgs[i].temperature] = <<20000, 20000, 20010, 22500>>
  /\ \A i \in 1..4 : msgs[i].deviceId = "d1" /\ msgs[i].humidity = Null
  /\ \A p \in Procs : procs[p].pc = "idle"

MsgsOf(d) == {i \in 1..Len(msgs) : msgs[i].deviceId = d}

SameAt2(x, y) == ToFixed2(x) = ToFixed2(y)

\* C6 (Dedup): when every reading submitted so far for a device (at least
\* one) has temperature 20.00 and no humidity, exactly one Reading of that
\* device is stored.
C6_Dedup ==
  \A d \in Devices :
    (/\ MsgsOf(d) # {}
     /\ \A i \in MsgsOf(d) : msgs[i].temperature = 20000 /\ msgs[i].humidity = Null)
    => Cardinality(RowsOf(d)) = 1

C6_Witness ==
  /\ Cardinality(MsgsOf("d1")) = MaxMsgs
  /\ \A i \in MsgsOf("d1") : msgs[i].temperature = 20000 /\ msgs[i].humidity = Null
  /\ Cardinality(RowsOf("d1")) = 1

\* C7 (silent drop): a reading whose temperature equals the most recent
\* stored temperature at 2-decimal rounding, and whose humidity is absent or
\* equal to the most recent stored humidity at 2-decimal rounding, is not
\* stored -- for every value, 0 included.
C7_DropsUnchanged ==
  \A i \in 1..Len(msgs) :
    LET m == msgs[i] IN
    (/\ m.prior # <<>>
     /\ SameAt2(m.prior[1].temperatureC, m.temperature)
     /\ \/ m.humidity = Null
        \/ /\ m.prior[1].humidity # Null
           /\ SameAt2(Val(m.prior[1].humidity), Val(m.humidity)))
    => ~m.stored

\* C8 (accept): a reading is stored whenever the device has no prior
\* Reading, or its temperature differs from the prior one at 2-decimal
\* rounding, or it carries a humidity that differs from the prior humidity
\* at 2-decimal rounding.
C8_StoresChanges ==
  \A i \in 1..Len(msgs) :
    LET m == msgs[i] IN
    (\/ m.prior = <<>>
     \/ /\ m.prior # <<>>
        /\ ~SameAt2(m.prior[1].temperatureC, m.temperature)
     \/ /\ m.prior # <<>>
        /\ m.humidity # Null
        /\ m.prior[1].humidity # Null
        /\ ~SameAt2(Val(m.prior[1].humidity), Val(m.humidity)))
    => m.stored /\ readings[Len(SelectSeq(SubSeq(msgs, 1, i), LAMBDA x : x.stored))]
                     = [deviceId |-> m.deviceId, temperatureC |-> m.temperature,
                        humidity |-> m.humidity, takenAt |-> m.at]

\* The three cases of C8 all occur: a first reading, a changed temperature
\* and a changed humidity, each stored.
C8_Witness ==
  /\ Len(msgs) = 3
  /\ \A i \in 1..3 : msgs[i].deviceId = "d1" /\ msgs[i].stored
  /\ msgs[1].prior = <<>>
  /\ msgs[1].humidity = <<45000>>
  /\ ~SameAt2(msgs[1].temperature, msgs[2].temperature)
  /\ msgs[2].humidity = <<45004>>
  /\ SameAt2(msgs[2].temperature, msgs[3].temperature)
  /\ msgs[3].humidity = <<0>>

\* C9 (humidity introduced): a reading that carries a humidity while the
\* most recent stored Reading of the device has none is stored, even with
\* the temperature unchanged at 2-decimal rounding.
C9_NewHumidityStored ==
  \A i \in 1..Len(msgs) :
    LET m == msgs[i] IN
    (/\ m.prior # <<>>
     /\ m.prior[1].humidity = Null
     /\ m.humidity # Null)
    => m.stored

C9_Witness ==
  \E i \in 1..Len(msgs) :
    /\ msgs[i].prior # <<>>
    /\ msgs[i].prior[1].humidity = Null
    /\ msgs[i].prior[1].temperatureC = 20000
    /\ msgs[i].temperature = 20004
    /\ msgs[i].humidity = <<45000>>
    /\ msgs[i].stored

\* ====================================================================
\* Alert Rule Evaluator: gates, one invocation after another
\* ====================================================================
\* Event e was handed to checkAlerts and its invocation has returned.
Evaluated(e) ==
  /\ e \in 1..Len(msgs)
  /\ msgs[e].now # Null
  /\ \A p \in Procs : procs[p].event # e

\* A notification for rule id was emitted by the invocation of event e.
FiredAt(e, id) ==
  \E k \in 1..Len(sent) : sent[k].event = e /\ sent[k].alertId = id

\* Rule r is enabled and belongs to the device of event e.
Applies(r, e) == r.enabled /\ r.deviceId = msgs[e].deviceId

\* The value of event e for the metric of rule r, if the event has it.
MetricOf(r, e) ==
  IF r.type = "temperature" THEN <<msgs[e].temperature>> ELSE msgs[e].humidity

\* Event e breaches a threshold of rule r.
Breach(r, e) ==
  LET v == MetricOf(r, e) IN
  /\ v # <<>>
  /\ \/ r.minThreshold # <<>> /\ v[1] < r.minThreshold[1]
     \/ r.maxThreshold # <<>> /\ v[1] > r.maxThreshold[1]

\* Rule r has no date range and no weekday set.
NoCalendar(r) == r.startDate = <<>> /\ r.endDate = <<>> /\ r.daysOfWeek = {}

\* Rule r has no schedule at all.
Unscheduled(r) == NoCalendar(r) /\ r.startTime = <<>> /\ r.endTime = <<>>

\* A notification of the rule was emitted by an earlier event less than one
\* hour before the evaluation of event e.
RecentFire(e, id) ==
  \E k \in 1..Len(sent) :
    /\ sent[k].alertId = id
    /\ sent[k].event < e
    /\ msgs[e].now[1] - sent[k].now < 3600

\* The evaluation times of the notifications emitted for rule id.
FireTimes(id) == {sent[k].now : k \in {j \in 1..Len(sent) : sent[j].alertId = id}}

SetMax(S) == CHOOSE x \in S : \A y \in S : y <= x

\* Three events of device d1 below 21.00, evaluated at 0, 10 and 61 minutes.
ThrottleScenario ==
  /\ Len(alerts) = 1
  /\ [alerts[1] EXCEPT !.lastTriggeredAt = <<>>] = RuleMin21
  /\ Len(msgs) = 3
  /\ \A e \in 1..3 : Evaluated(e) /\ Breach(alerts[1], e)
  /\ [e \in 1..3 |-> msgs[e].now] = << <<0>>, <<600>>, <<3660>> >>

\* C11: with invocations running one after another, an event that breaches
\* an unscheduled rule of its device is suppressed iff a notification of the
\* rule was emitted less than one hour before (strictly); once the
\* invocations have returned, last-triggered of every rule is the evaluation
\* time of its latest notification, so a suppressed event did not change it;
\* events at 0 and 10 minutes give one notification and the event at 61
\* minutes a second one.
C11_Throttle ==
  /\ \A e \in 1..Len(msgs), i \in 1..Len(alerts) :
       (Evaluated(e) /\ Applies(alerts[i], e) /\ Unscheduled(alerts[i])
          /\ Breach(alerts[i], e))
       => (FiredAt(e, alerts[i].id) <=> ~RecentFire(e, alerts[i].id))
  /\ (\A p \in Procs : procs[p].pc = "idle")
       => \A i \in 1..Len(alerts) :
            alerts[i].lastTriggeredAt =
              IF FireTimes(alerts[i].id) = {} THEN <<>>
              ELSE <<SetMax(FireTimes(alerts[i].id))>>
  /\ ThrottleScenario
       => /\ Len(sent) = 2
          /\ sent[1].event = 1 /\ sent[2].event = 3

\* The three events were evaluated: two notifications, none for the second
\* event, and last-triggered is the time of the third.
C11_Witness ==
  /\ ThrottleScenario
  /\ Len(sent) = 2
  /\ ~FiredAt(2, 1)
  /\ alerts[1].lastTriggeredAt = <<3660>>

\* "HH:MM" as minutes since midnight.
Minutes(hhmm) ==
  (hhmm[1] - 48) * 600 + (hhmm[2] - 48) * 60 + (hhmm[4] - 48) * 10 + (hhmm[5] - 48)

\* The minute of the day of the evaluation of event e.
MinuteOfDay(e) == (msgs[e].now[1] % 86400) \div 60

\* Rule r has both ends of a time-of-day window.
HasWindow(r) == r.startTime # <<>> /\ r.endTime # <<>>

\* Rule r has an overnight window: start after end.
Overnight(r) == HasWindow(r) /\ Minutes(r.startTime) > Minutes(r.endTime)

\* C12: for a rule with an overnight window (start > end) and no date or
\* weekday restriction, an evaluated event of the device fires iff its time
\* of day is >= start or <= end, it breaches a threshold and the rule did
\* not fire in the hour before; at a time strictly between end and start
\* there is no notification whatever the value.
C12_OvernightWindow ==
  \A e \in 1..Len(msgs), i \in 1..Len(alerts) :
    (Evaluated(e) /\ Applies(alerts[i], e) /\ NoCalendar(alerts[i])
       /\ Overnight(alerts[i]))
    => (FiredAt(e, alerts[i].id)
          <=> /\ \/ MinuteOfDay(e) >= Minutes(alerts[i].startTime)
                 \/ MinuteOfDay(e) <= Minutes(alerts[i].endTime)
              /\ Breach(alerts[i], e)
              /\ ~RecentFire(e, alerts[i].id))

\* Window 22:00-06:00: 26.00 at 12:00 gives no notification, 26.00 at
\* exactly 22:00 gives one.
C12_Witness ==
  /\ alerts[1].startTime = HHMM(22, 0) /\ alerts[1].endTime = HHMM(6, 0)
  /\ Len(msgs) = 2 /\ Evaluated(1) /\ Evaluated(2)
  /\ msgs[1].now = <<43200>> /\ msgs[1].temperature = 26000 /\ ~FiredAt(1, 1)
  /\ msgs[2].now = <<79200>> /\ msgs[2].temperature = 26000 /\ FiredAt(2, 1)

\* C13: the time-of-day gate applies only to a rule with both start and
\* end; with start <= end an evaluated event of the device fires iff
\* start <= its HH:MM <= end (both ends included), it breaches a threshold
\* and the rule did not fire in the hour before; with an end missing the
\* time of day does not matter.
C13_SameDayWindow ==
  \A e \in 1..Len(msgs), i \in 1..Len(alerts) :
    (Evaluated(e) /\ Applies(alerts[i], e) /\ NoCalendar(alerts[i])
       /\ ~Overnight(alerts[i]))
    => (FiredAt(e, alerts[i].id)
          <=> /\ HasWindow(alerts[i])
                   => /\ Minutes(alerts[i].startTime) <= MinuteOfDay(e)
                      /\ MinuteOfDay(e) <= Minutes(alerts[i].endTime)
              /\ Breach(alerts[i], e)
              /\ ~RecentFire(e, alerts[i].id))

\* Window 06:00-22:00: 26.00 at exactly 06:00 gives a notification, 26.00
\* at 22:01 gives none.
C13_Witness ==
  /\ alerts[1].startTime = HHMM(6, 0) /\ alerts[1].endTime = HHMM(22, 0)
  /\ Len(msgs) = 2 /\ Evaluated(1) /\ Evaluated(2)
  /\ msgs[1].now = <<21600>> /\ msgs[1].temperature = 26000 /\ FiredAt(1, 1)
  /\ msgs[2].now = <<79260>> /\ msgs[2].temperature = 26000 /\ ~FiredAt(2, 1)

\* C14: a notification is emitted only for an event that breaches a
\* threshold of the rule on the metric of the rule's kind, strictly
\* (value < min or value > max), and carries that value; an unscheduled
\* rule that did not fire in the hour before fires on every such event;
\* with min = 18 and max = 25 it fires at 26.00 and not at 25.00, 24.90 or
\* 18.00.
C14_Threshold ==
  /\ \A e \in 1..Len(msgs), i \in 1..Len(alerts) :
       (Evaluated(e) /\ Applies(alerts[i], e))
       => /\ FiredAt(e, alerts[i].id) => Breach(alerts[i], e)
          /\ (Unscheduled(alerts[i]) /\ ~RecentFire(e, alerts[i].id)
                /\ Breach(alerts[i], e))
             => FiredAt(e, alerts[i].id)
          /\ (alerts[i].type = "temperature"
                /\ alerts[i].minThreshold = <<18000>>
                /\ alerts[i].maxThreshold = <<25000>>
                /\ msgs[e].temperature \in {18000, 24900, 25000})
             => ~FiredAt(e, alerts[i].id)
  /\ \A k \in 1..Len(sent), i \in 1..Len(alerts) :
       alerts[i].id = sent[k].alertId
       => <<sent[k].value>> = MetricOf(alerts[i], sent[k].event)

\* min = 18, max = 25: no notification at 25.00, then one at 26.00.
C14_Witness ==
  /\ alerts[1].minThreshold = <<18000>> /\ alerts[1].maxThreshold = <<25000>>
  /\ Len(msgs) = 2 /\ Evaluated(1) /\ Evaluated(2)
  /\ msgs[1].temperature = 25000 /\ ~FiredAt(1, 1)
  /\ msgs[2].temperature = 26000 /\ FiredAt(2, 1)
  /\ sent[1].value = 26000

\* Notification k is the latest one emitted for its rule.
LatestOfRule(k) ==
  \A j \in 1..Len(sent) : sent[j].alertId = sent[k].alertId => j <= k

\* The rows of the alerts table that hold rule id.
RowsOfRule(id) == {i \in 1..Len(alerts) : alerts[i].id = id}

\* C15: once the invocation that emitted a notification has returned,
\* whether the send succeeded or failed, last-triggered of the rule is the
\* evaluation time of its latest notification; the notification of an event
\* is emitted once (a failed send is not retried); and no later event
\* evaluated less than one hour after it fires the rule, also when the send
\* had failed.
C15_StampOnFailedSend ==
  \A k \in 1..Len(sent) :
    Evaluated(sent[k].event)
    => /\ \A i \in RowsOfRule(sent[k].alertId) :
            /\ alerts[i].lastTriggeredAt # <<>>
            /\ LatestOfRule(k) => alerts[i].lastTriggeredAt = <<sent[k].now>>
       /\ \A j \in 1..Len(sent) :
            (sent[j].alertId = sent[k].alertId /\ sent[j].event = sent[k].event)
            => j = k
       /\ \A e \in 1..Len(msgs) :
            (e > sent[k].event /\ Evaluated(e)
               /\ msgs[e].now[1] - sent[k].now < 3600)
            => ~FiredAt(e, sent[k].alertId)

\* The send for the first event failed; the rule is stamped with the time
\* of that event and the breaching event 10 minutes later is suppressed.
C15_Witness ==
  /\ Len(alerts) = 1
  /\ Len(sent) = 1 /\ ~sent[1].ok /\ sent[1].event = 1 /\ sent[1].now = 0
  /\ alerts[1].lastTriggeredAt = <<0>>
  /\ Len(msgs) >= 2 /\ Evaluated(2)
  /\ msgs[2].now = <<600>> /\ Breach(alerts[1], 2) /\ ~FiredAt(2, 1)

\* C16: a failed send does not end the invocation: once the invocation of
\* an event with a failed send has returned, the rule of the failed send
\* carries its stamp and every other unscheduled rule of the device that
\* the event breaches, and that did not fire in the hour before, has its
\* notification from that same event.
C16_SinkErrorContained ==
  \A k \in 1..Len(sent) :
    (~sent[k].ok /\ Evaluated(sent[k].event))
    => /\ \A i \in RowsOfRule(sent[k].alertId) :
            alerts[i].lastTriggeredAt # <<>>
       /\ \A i \in 1..Len(alerts) :
            (Applies(alerts[i], sent[k].event) /\ Unscheduled(alerts[i])
               /\ Breach(alerts[i], sent[k].event)
               /\ ~RecentFire(sent[k].event, alerts[i].id))
            => FiredAt(sent[k].event, alerts[i].id)

\* One event breaches two rules; the first send failed and the second rule
\* was still evaluated and fired.
C16_Witness ==
  /\ Len(alerts) = 2
  /\ Len(sent) = 2 /\ ~sent[1].ok
  /\ sent[1].event = 1 /\ sent[2].event = 1
  /\ sent[1].alertId # sent[2].alertId
  /\ Evaluated(1)
  /\ \A i \in 1..2 : alerts[i].lastTriggeredAt = msgs[1].now

C18_AppendOnly ==
  [][/\ Len(readings') >= Len(readings)
     /\ \A i \in 1..Len(readings) : readings'[i] = readings[i]
     /\ readings' # readings
          => /\ Len(readings') = Len(readings) + 1
             /\ Len(msgs') = Len(msgs) + 1
             /\ msgs'[Len(msgs')].stored
             /\ readings'[Len(readings')] =
                  [deviceId |-> msgs'[Len(msgs')].deviceId,
                   temperatureC |-> msgs'[Len(msgs')].temperature,
                   humidity |-> msgs'[Len(msgs')].humidity,
                   takenAt |-> clock]
             /\ runs' = runs /\ aggregates' = aggregates
             /\ procs' = procs /\ alerts' = alerts]_vars

\* Two Readings are stored, an Aggregator run has written buckets and an
\* invocation of checkAlerts has fired; the first Reading is as it was
\* stored.
C18_Witness ==
  /\ Len(readings) = 2
  /\ readings[1] = [deviceId |-> "d1", temperatureC |-> 20000,
                    humidity |-> <<>>, takenAt |-> 0]
  /\ Len(runlog) >= 1 /\ runlog[1].completed /\ aggregates # EmptyBag
  /\ Len(sent) >= 1 /\ alerts[1].lastTriggeredAt # <<>>

\* The copies of rows with key (d, g, b) in bag B.
CopiesOfKey(B, d, g, b) ==
  LET K == {r \in DOMAIN B :
              r.deviceId = d /\ r.granularity = g /\ r.bucketStart = b}
  IN BagCardinality([r \in K |-> B[r]])

\* Entry k of the run log is a completed run during which no Reading was
\* stored.
QuietRun(k) ==
  runlog[k].completed /\ runlog[k].nStart = runlog[k].nEnd
    /\ runlog[k].nEnd <= Len(readings)

\* C19, window [from, to): a Reading taken at exactly `to`
\* brings no bucket into being (where none was before the run and no Reading
\* of the device before `to` falls in the same bucket); while a run is
\* between its delete and its insert, the buckets that started at `to`
\* before the run are still stored; a Reading taken at `from` has its
\* bucket after the run.
C19_HalfOpenWindow ==
  /\ \A k \in 1..Len(runlog), d \in Devices :
       LET e == runlog[k]
           b == BucketStart(e.granularity, e.to)
       IN
       (/\ QuietRun(k)
        /\ \E i \in 1..e.nEnd :
             readings[i].deviceId = d /\ readings[i].takenAt = e.to
        /\ CopiesOfKey(e.before, d, e.granularity, b) = 0
        /\ \A i \in 1..e.nEnd :
             (readings[i].deviceId = d /\ e.from <= readings[i].takenAt
                /\ readings[i].takenAt < e.to)
             => BucketStart(e.granularity, readings[i].takenAt) # b)
       => CopiesOfKey(e.after, d, e.granularity, b) = 0
  /\ run.pc = "insert"
       => \A d \in Devices :
            CopiesOfKey(aggregates, d, run.granularity, run.to)
              >= CopiesOfKey(run.before, d, run.granularity, run.to)
  /\ \A k \in 1..Len(runlog), d \in Devices :
       LET e == runlog[k] IN
       (QuietRun(k) /\ \E i \in 1..e.nEnd :
                         readings[i].deviceId = d /\ readings[i].takenAt = e.from)
       => CopiesOfKey(e.after, d, e.granularity,
                      BucketStart(e.granularity, e.from)) >= 1

\* The width of a bucket in seconds.
Width(g) ==
  CASE g = "1m" -> 60 [] g = "5m" -> 300 [] g = "1h" -> 3600
    [] g = "6h" -> 21600 [] g = "1d" -> 86400

\* C20: the start of every bucket written for Readings taken at t is a
\* multiple of the width of its granularity counted from the epoch (for
\* 1m, 1h and 1d these are the UTC calendar minutes, hours and days) with
\* start <= t < start + width, that is floor(t / width) * width; for
\* t = 12:07:31 the 5m bucket starts at 12:05:00 and the 1d bucket at
\* 00:00:00 of that day.
C20_BucketAlignment ==
  \A r \in DOMAIN aggregates :
    LET w == Width(r.granularity) IN
    /\ r.bucketStart % w = 0
    /\ r.bucketStart <= clock /\ clock < r.bucketStart + w
    /\ (clock = 43651 /\ r.granularity = "5m") => r.bucketStart = 43500
    /\ (clock = 43651 /\ r.granularity = "1d") => r.bucketStart = 0
    /\ (clock = 130051 /\ r.granularity = "5m") => r.bucketStart = 129900
    /\ (clock = 130051 /\ r.granularity = "1d") => r.bucketStart = 86400

\* A Reading taken at 12:07:31 has its 5m bucket at 12:05:00 and its 1d
\* bucket at 00:00:00.
C20_Witness ==
  /\ clock = 43651
  /\ \E r \in DOMAIN aggregates :
       r.deviceId = "d1" /\ r.granularity = "5m" /\ r.bucketStart = 43500
  /\ \E r \in DOMAIN aggregates :
       r.deviceId = "d1" /\ r.granularity = "1d" /\ r.bucketStart = 0

\* ====================================================================
\* Aggregator: what a run writes
\* ====================================================================
\* The Readings of device d taken in [from, to) and in the sub-interval
\* [b, b + width) of granularity g.
SubInterval(d, g, b, from, to) ==
  {i \in 1..Len(readings) :
     /\ readings[i].deviceId = d
     /\ from <= readings[i].takenAt /\ readings[i].takenAt < to
     /\ b <= readings[i].takenAt /\ readings[i].takenAt < b + Width(g)}

\* The Readings I in the order of their temperatures.
SortedBy(I) ==
  CHOOSE q \in [1..Cardinality(I) -> I] :
    /\ \A i \in I : \E k \in 1..Cardinality(I) : q[k] = i
    /\ \A k \in 1..(Cardinality(I) - 1) :
         readings[q[k]].temperatureC <= readings[q[k + 1]].temperatureC

\* The middle temperature of an odd count, the mean of the two middle
\* temperatures of an even count.
MiddleOf(I) ==
  LET n == Cardinality(I)
      q == SortedBy(I)
  IN IF n % 2 = 1 THEN readings[q[(n + 1) \div 2]].temperatureC
     ELSE (readings[q[n \div 2]].temperatureC
             + readings[q[(n \div 2) + 1]].temperatureC) \div 2

\* The aligned bucket starts of granularity g up to instant `to`.
AlignedStarts(g, to) == {k * Width(g) : k \in 0..(to \div Width(g))}

\* C21: the rows a run is about to write for a device are exactly one
\* bucket per sub-interval that holds at least one in-window Reading of the
\* device, valued with the median of those Readings (middle value of an odd
\* count, mean of the two middle values of an even count), and none for an
\* empty sub-interval; after the completed run each of these buckets is
\* stored.
C21_MedianPerSubInterval ==
  /\ run.pc \in {"delete", "insert"}
       => LET d == run.deviceIds[run.idx]
              g == run.granularity
          IN run.values =
               {[bucketStart |-> b, granularity |-> g,
                 medianC |-> MiddleOf(SubInterval(d, g, b, run.from, run.to)),
                 deviceId |-> d] :
                  b \in {x \in AlignedStarts(g, run.to) :
                           SubInterval(d, g, x, run.from, run.to) # {}}}
  /\ \A k \in 1..Len(runlog), d \in Devices :
       LET e == runlog[k] IN
       QuietRun(k)
       => \A b \in AlignedStarts(e.granularity, e.to) :
            LET I == {i \in SubInterval(d, e.granularity, b, e.from, e.to) :
                        i <= e.nEnd}
            IN I # {}
               => BagIn([bucketStart |-> b, granularity |-> e.granularity,
                         medianC |-> MiddleOf(I), deviceId |-> d], e.after)

\* A 5m run is about to write one bucket for three Readings of d1 (20.00,
\* 26.00, 22.00): the middle value 22.00.
C21_Witness ==
  /\ run.pc = "insert" /\ run.granularity = "5m"
  /\ run.deviceIds[run.idx] = "d1"
  /\ [i \in 1..Len(readings) |-> readings[i].temperatureC]
       = <<20000, 20000, 26000, 22000>>
  /\ \A i \in 2..Len(readings) : readings[i].deviceId = "d1"
  /\ run.from = 0
  /\ run.values = {[bucketStart |-> 0, granularity |-> "5m",
                    medianC |-> 22000, deviceId |-> "d1"]}

\* The buckets of device d in bag B.
BucketsOf(B, d) == [x \in {y \in DOMAIN B : y.deviceId = d} |-> B[x]]

\* Device d has a Reading taken in [from, to].
HasReadingIn(d, from, to) ==
  \E i \in 1..Len(readings) :
    /\ readings[i].deviceId = d
    /\ from <= readings[i].takenAt /\ readings[i].takenAt <= to

\* C22: no step of a run changes a bucket of a device that has no Reading
\* in the window of that run: nothing is written for it and its stored
\* buckets stay as they are.
C22_NoZeroFill ==
  [][\A r \in Runners, d \in Devices :
       (runs'[r] # runs[r] /\ runs[r].pc # "idle"
          /\ ~HasReadingIn(d, runs[r].from, runs[r].to))
       => BucketsOf(aggregates', d) = BucketsOf(aggregates, d)]_vars

\* A 5m run over [0, 30] has replaced the bucket of d1 (now the median of
\* the Readings at 0 and 30) and has ended; d2, with no Reading in that
\* window, still has its 5m bucket starting at 0.
C22_Witness ==
  /\ Len(runlog) = 1 /\ runlog[1].completed
  /\ runlog[1].granularity = "5m" /\ runlog[1].to = 30
  /\ ~HasReadingIn("d2", 0, 30)
  /\ BagIn([bucketStart |-> 0, granularity |-> "5m", medianC |-> 21000,
            deviceId |-> "d1"], aggregates)
  /\ BagIn([bucketStart |-> 0, granularity |-> "5m", medianC |-> 20000,
            deviceId |-> "d2"], aggregates)
  /\ BucketsOf(aggregates, "d2") = BucketsOf(runlog[1].before, "d2")

\* The number of copies of row x in bag B.
Copies(B, x) == IF x \in DOMAIN B THEN B[x] ELSE 0

\* C23: a step of a run for granularity g changes the number of stored
\* copies of a bucket only if the bucket is of granularity g, of the device
\* the run is processing, and starts inside the window of the run; every
\* bucket of another granularity, of another device, or of g with a start
\* outside the window is left as it is.
C23_GranularityFrame ==
  [][\A r \in Runners :
       (runs'[r] # runs[r] /\ runs[r].pc # "idle")
       => \A x \in (DOMAIN aggregates) \cup (DOMAIN aggregates') :
            Copies(aggregates', x) # Copies(aggregates, x)
            => /\ x.granularity = runs[r].granularity
               /\ x.deviceId = runs[r].deviceIds[runs[r].idx]
               /\ runs[r].from <= x.bucketStart
               /\ x.bucketStart <= runs[r].to]_vars

\* A step of a run changes buckets of its granularity and of the device in
\* hand only, and removes only buckets that start inside its window.
FrameOfGranularityAndDevice ==
  [][\A r \in Runners :
       (runs'[r] # runs[r] /\ runs[r].pc # "idle")
       => \A x \in (DOMAIN aggregates) \cup (DOMAIN aggregates') :
            Copies(aggregates', x) # Copies(aggregates, x)
            => /\ x.granularity = runs[r].granularity
               /\ x.deviceId = runs[r].deviceIds[runs[r].idx]
               /\ (Copies(aggregates', x) < Copies(aggregates, x)
                     => /\ runs[r].from <= x.bucketStart
                        /\ x.bucketStart <= runs[r].to)]_vars

\* Two runs of different granularities, however their steps interleaved,
\* leave what the two leave when run one after the other.
InterleavedAsSequential ==
  (Len(runlog) = 2 /\ \A r \in Runners : runs[r].pc = "idle"
     /\ runlog[1].granularity # runlog[2].granularity)
  => aggregates =
       RunAlone(RunAlone(RunAlone(RunAlone(EmptyBag, "1m", 0, 120), "5m", 0, 120),
                         runlog[1].granularity, runlog[1].from, runlog[1].to),
                runlog[2].granularity, runlog[2].from, runlog[2].to)

\* The window length and the period the scheduling rule gives the tier
\* of a granularity, in seconds.
SpanOf(g) ==
  CASE g \in {"1m", "5m"} -> 900
    [] g \in {"1h", "6h"} -> 21600
    [] g = "1d" -> 172800

EveryOf(g) ==
  CASE g \in {"1m", "5m"} -> 60
    [] g \in {"1h", "6h"} -> 3600
    [] g = "1d" -> 86400

TierOf(g) ==
  CASE g \in {"1m", "5m"} -> "minute"
    [] g \in {"1h", "6h"} -> "hour"
    [] g = "1d" -> "day"

\* The tick of granularity g that fires a handler running at instant t.
TickOf(g, t) == t - (t % EveryOf(g))

\* The handler of granularity g that ran at instant t has returned.
TickServed(g, t) ==
  \/ t < clock
  \/ /\ t = clock
     /\ jobs[TierOf(g)].last = TickOf(g, t)
     /\ jobs[TierOf(g)].call = 0

RunsOfTick(g, tick) ==
  {k \in DOMAIN runlog :
     runlog[k].granularity = g /\ TickOf(g, runlog[k].to) = tick}

HealedBy(i, j, k) ==
  LET rd == readings[i]
      g == runlog[j].granularity
      b == BucketStart(g, rd.takenAt)
      Later(m) == /\ runlog[m].granularity = g
                  /\ runlog[m].completed
                  /\ runlog[m].nStart >= i
                  /\ runlog[m].from <= rd.takenAt
                  /\ rd.takenAt <= runlog[m].to
  IN /\ j < k
     /\ runlog[j].completed
     /\ runlog[j].nEnd < i
     /\ CopiesOfKey(runlog[j].before, rd.deviceId, g, b) = 0
     /\ CopiesOfKey(runlog[j].after, rd.deviceId, g, b) > 0
     /\ Later(k)
     /\ \A m \in (j + 1)..(k - 1) : ~Later(m)

\* The Readings of the device of Reading i stored when entry k of the run
\* log ended, in the bucket of granularity g that contains Reading i.
BucketMates(i, g, k) ==
  {n \in 1..runlog[k].nEnd :
     /\ readings[n].deviceId = readings[i].deviceId
     /\ BucketStart(g, readings[n].takenAt)
          = BucketStart(g, readings[i].takenAt)}

\* C25: self-healing: when a Reading is stored after a run wrote the bucket
\* containing its receipt time, the store left by the next completed
\* scheduled run of that granularity whose window contains that time holds
\* a single bucket for (device, granularity, bucket start of the Reading),
\* with the median of the Readings of that bucket, the new one included.
C25_SelfHealing ==
  \A i \in 1..Len(readings) : \A j, k \in DOMAIN runlog :
    HealedBy(i, j, k) =>
      LET g == runlog[k].granularity
          d == readings[i].deviceId
          b == BucketStart(g, readings[i].takenAt)
      IN /\ CopiesOfKey(runlog[k].after, d, g, b) = 1
         /\ BagIn([bucketStart |-> b, granularity |-> g,
                   medianC |-> MiddleOf(BucketMates(i, g, k)),
                   deviceId |-> d], runlog[k].after)

\* Rule r has no time-of-day window in effect.
NoWindow(r) == ~HasWindow(r)

\* The evaluation time of event e is outside the date range of rule r.
OutOfDates(r, e) ==
  \/ r.startDate # <<>> /\ msgs[e].now[1] < r.startDate[1]
  \/ r.endDate # <<>> /\ msgs[e].now[1] > r.endDate[1]

\* C26: date-range gate: for a rule with no weekday set and no time-of-day
\* window, an evaluated event of the device that breaches a threshold, the
\* rule not having fired in the hour before, is skipped iff a start date
\* is set and the evaluation time is before it or an end date is set and
\* the evaluation time is after it; a skipped evaluation emits nothing and
\* does not stamp the rule, and an evaluation at exactly the start or the
\* end date is not skipped.
C26_DateGate ==
  \A e \in 1..Len(msgs), i \in 1..Len(alerts) :
    (Evaluated(e) /\ Applies(alerts[i], e) /\ alerts[i].daysOfWeek = {}
       /\ NoWindow(alerts[i]))
    => /\ (Breach(alerts[i], e) /\ ~RecentFire(e, alerts[i].id))
            => (~FiredAt(e, alerts[i].id) <=> OutOfDates(alerts[i], e))
       /\ OutOfDates(alerts[i], e)
            => /\ ~FiredAt(e, alerts[i].id)
               /\ alerts[i].lastTriggeredAt # msgs[e].now

\* Range from Sunday 00:00:00 to Tuesday 00:00:00: 26.00 one second before
\* the start gives no notification and no stamp, 26.00 at exactly the end
\* gives a notification.
C26_Witness ==
  /\ alerts[1].startDate = <<RangeStart>> /\ alerts[1].endDate = <<RangeEnd>>
  /\ Len(msgs) = 2 /\ Evaluated(1) /\ Evaluated(2)
  /\ msgs[1].now = <<RangeStart - 1>> /\ msgs[1].temperature = 26000
  /\ ~FiredAt(1, 1)
  /\ msgs[2].now = <<RangeEnd>> /\ msgs[2].temperature = 26000
  /\ FiredAt(2, 1)
  /\ alerts[1].lastTriggeredAt = <<RangeEnd>>

\* The weekday of the evaluation of event e, 0 for Sunday to 6 for
\* Saturday; day 0 of the epoch was a Thursday.
WeekdayOf(e) ==
  LET day == msgs[e].now[1] \div 86400
  IN CHOOSE w \in 0..6 : (day - w + 4) % 7 = 0

\* C27: weekday gate: for a rule with no date range and no time-of-day
\* window, an evaluated event of the device that breaches a threshold, the
\* rule not having fired in the hour before, is skipped iff the weekday set
\* of the rule is non-empty and does not contain the weekday of the
\* evaluation; with an empty set it is never skipped.
C27_WeekdayGate ==
  \A e \in 1..Len(msgs), i \in 1..Len(alerts) :
    (Evaluated(e) /\ Applies(alerts[i], e)
       /\ alerts[i].startDate = <<>> /\ alerts[i].endDate = <<>>
       /\ NoWindow(alerts[i]))
    => LET off == /\ alerts[i].daysOfWeek # {}
                  /\ WeekdayOf(e) \notin alerts[i].daysOfWeek
       IN /\ (Breach(alerts[i], e) /\ ~RecentFire(e, alerts[i].id))
               => (~FiredAt(e, alerts[i].id) <=> off)
          /\ off => /\ ~FiredAt(e, alerts[i].id)
                    /\ alerts[i].lastTriggeredAt # msgs[e].now

\* Weekday set {Monday, Tuesday}: 26.00 on Sunday noon gives no
\* notification, 26.00 on Monday noon gives one.
C27_Witness ==
  /\ alerts[1].daysOfWeek = {1, 2}
  /\ Len(msgs) = 2 /\ Evaluated(1) /\ Evaluated(2)
  /\ msgs[1].now = <<RangeStart + 43200>> /\ msgs[1].temperature = 26000
  /\ ~FiredAt(1, 1)
  /\ msgs[2].now = <<RangeStart + 129600>> /\ msgs[2].temperature = 26000
  /\ FiredAt(2, 1)

\* C28: no step of an invocation of checkAlerts for a reading without
\* humidity emits a notification of a humidity rule or changes the
\* last-triggered time of one, whatever the temperature.
C28_HumidityAbsent ==
  [][\A p \in Procs :
       (procs[p].pc # "idle" /\ procs[p].humidity = <<>>
          /\ procs'[p] # procs[p])
       => \A i \in 1..Len(alerts) :
            alerts[i].type = "humidity"
            => /\ alerts'[i] = alerts[i]
               /\ \A k \in 1..Len(sent') :
                    sent'[k].alertId = alerts[i].id => k <= Len(sent)]_vars

\* A humidity rule with thresholds 30 and 60 was evaluated against readings
\* of 17.90 and of 26.00 without humidity: no notification, no stamp.
C28_Witness ==
  /\ alerts[1].type = "humidity"
  /\ Len(msgs) = 2 /\ Evaluated(1) /\ Evaluated(2)
  /\ msgs[1].humidity = <<>> /\ msgs[1].temperature = 17900
  /\ msgs[2].humidity = <<>> /\ msgs[2].temperature = 26000
  /\ sent = <<>>
  /\ alerts[1].lastTriggeredAt = <<>>

\* The evaluation time of event e is outside the schedule of rule r: its
\* date range, its weekday set or its time-of-day window.
OffSchedule(r, e) ==
  \/ OutOfDates(r, e)
  \/ r.daysOfWeek # {} /\ WeekdayOf(e) \notin r.daysOfWeek
  \/ /\ HasWindow(r)
     /\ IF Overnight(r)
        THEN /\ MinuteOfDay(e) < Minutes(r.startTime)
             /\ MinuteOfDay(e) > Minutes(r.endTime)
        ELSE \/ MinuteOfDay(e) < Minutes(r.startTime)
             \/ MinuteOfDay(e) > Minutes(r.endTime)

\* C29: an invocation of checkAlerts for a device decides on each rule by
\* that rule alone: a notification of a rule is emitted for an evaluated
\* event iff the rule is enabled, belongs to the device of the event, is
\* on schedule, is breached and did not fire in the hour before; so a
\* disabled rule or a rule of another device never notifies, and a rule
\* that is skipped or throttled does not keep a later rule from firing.
C29_EveryEnabledRule ==
  \A e \in 1..Len(msgs), i \in 1..Len(alerts) :
    Evaluated(e)
    => (FiredAt(e, alerts[i].id)
          <=> /\ Applies(alerts[i], e)
              /\ ~OffSchedule(alerts[i], e)
              /\ Breach(alerts[i], e)
              /\ ~RecentFire(e, alerts[i].id))

\* Rule 1 is for Sundays only; on a Thursday 20.00 fires rule 2 alone, and
\* ten minutes later 20.01 fires rule 3 alone, rule 1 being skipped and
\* rule 2 throttled.
C29_Witness ==
  /\ alerts[1].daysOfWeek = {0}
  /\ Len(msgs) = 2 /\ Evaluated(1) /\ Evaluated(2)
  /\ msgs[1].now = <<0>> /\ msgs[1].temperature = 20000
  /\ msgs[2].now = <<600>> /\ msgs[2].temperature = 20010
  /\ Len(sent) = 2
  /\ sent[1].event = 1 /\ sent[1].alertId = 2
  /\ sent[2].event = 2 /\ sent[2].alertId = 3

\* C30: two evaluations started at the same server time for the same
\* temperature against rules in the same state, which differ only in the
\* time the device reported, make the same decision: both emit a
\* notification or neither does, and once both have returned the two rules
\* carry the same last-triggered time.
C30_ReportedTimeIgnored ==
  /\ \A k \in 1..(Len(msgs) \div 2) :
       (Evaluated(2 * k - 1) /\ Evaluated(2 * k))
       => (FiredAt(2 * k - 1, 1) <=> FiredAt(2 * k, 2))
  /\ (\A p \in Procs : procs[p].pc = "idle")
       => alerts[1].lastTriggeredAt = alerts[2].lastTriggeredAt

\* Weekday set {Monday, Tuesday}, Monday noon: one message reports the
\* Saturday before, the other the Monday noon itself; both evaluations
\* fire and both rules are stamped with the server time.
C30_Witness ==
  /\ alerts[1].daysOfWeek = {1, 2}
  /\ Len(msgs) = 2 /\ Evaluated(1) /\ Evaluated(2)
  /\ msgs[1].at = RangeStart + 129600
  /\ msgs[1].timestamp = <<RangeStart - 43200>>
  /\ msgs[2].timestamp = <<RangeStart + 129600>>
  /\ FiredAt(1, 1) /\ FiredAt(2, 2)
  /\ alerts[1].lastTriggeredAt = <<RangeStart + 129600>>
  /\ alerts[2].lastTriggeredAt = <<RangeStart + 129600>>

\* C31: every rule accepted by create has at least one threshold and, when
\* both are present, min < max: a body with neither threshold is rejected,
\* and a body with both is rejected unless min < max.
C31_ThresholdValidation ==
  \A i \in 1..Len(alerts) :
    /\ alerts[i].minThreshold # <<>> \/ alerts[i].maxThreshold # <<>>
    /\ (alerts[i].minThreshold # <<>> /\ alerts[i].maxThreshold # <<>>)
         => alerts[i].minThreshold[1] < alerts[i].maxThreshold[1]

\* Every rule that has both thresholds has min < max.
MinBelowMaxWhenBoth ==
  \A i \in 1..Len(alerts) :
    (alerts[i].minThreshold # <<>> /\ alerts[i].maxThreshold # <<>>)
      => alerts[i].minThreshold[1] < alerts[i].maxThreshold[1]

\* The payload of a delivery that JSON.parse cannot parse.
Unparseable(delivery) ==
  delivery.topic = Topic /\ ~JsonParse(delivery.payload).ok

\* C32: a message whose payload cannot be parsed is dropped: the step that
\* delivers it stores no Reading and changes no rule, and the listener is
\* still listening afterwards, ready for the messages that follow.
C32_MalformedDropped ==
  [][(Len(received') = Len(received) + 1
        /\ Unparseable(received'[Len(received')]))
     => (readings' = readings /\ alerts' = alerts
           /\ listener' = "listening")]_vars

\* The part of the statement on the stores: an unparseable payload stores no
\* Reading and changes no rule.
MalformedStoresNothing ==
  [][(Len(received') = Len(received) + 1
        /\ Unparseable(received'[Len(received')]))
     => (readings' = readings /\ alerts' = alerts)]_vars

\* Two Readings that the Change-Gate cannot tell apart: the same device, the
\* same temperature at two decimals, and the same humidity at two decimals
\* (or none on both).
Indistinguishable(a, b) ==
  /\ a.deviceId = b.deviceId
  /\ ToFixed2(a.temperatureC) = ToFixed2(b.temperatureC)
  /\ IF a.humidity = Null \/ b.humidity = Null THEN a.humidity = b.humidity
     ELSE ToFixed2(Val(a.humidity)) = ToFixed2(Val(b.humidity))

\* Rows i < j are consecutive rows of one device in the Reading Store.
ConsecutiveRows(i, j) ==
  /\ i < j
  /\ readings[i].deviceId = readings[j].deviceId
  /\ \A k \in (i + 1)..(j - 1) : readings[k].deviceId # readings[i].deviceId

\* C34: however the calls of saveIfChanged started by the listener
\* interleave, the Reading Store never holds two consecutive Readings of one
\* device that are indistinguishable at two decimals.
C34_NoConsecutiveDuplicate ==
  \A i, j \in 1..Len(readings) :
    ConsecutiveRows(i, j) => ~Indistinguishable(readings[i], readings[j])

RECURSIVE SubscriptionOf(_, _)
\* The subscription set of client c after the first n gateway events, as
\* the messages define it: the device list of the latest 'devices:subscribe'
\* of the socket, minus the ids of the later 'devices:unsubscribe'.
SubscriptionOf(c, n) ==
  IF n = 0 THEN {}
  ELSE LET e == wslog[n] IN
       IF e.client # c THEN SubscriptionOf(c, n - 1)
       ELSE IF e.type = "subscribe" THEN SetOf(e.deviceIds)
       ELSE IF e.type = "unsubscribe"
       THEN SubscriptionOf(c, n - 1) \ SetOf(e.deviceIds)
       ELSE {}

\* The position of the event that connected the socket client c has now.
ConnectedAt(c) ==
  CHOOSE n \in 1..Len(wslog) :
    /\ wslog[n].type = "connect" /\ wslog[n].client = c
    /\ \A k \in (n + 1)..Len(wslog) : wslog[k].client # c \/ wslog[k].type # "connect"

\* The broadcasts since position n whose device was subscribed by c.
DueUpdates(c, n) ==
  {k \in n..Len(wslog) :
     wslog[k].type = "broadcast"
       /\ wslog[k].deviceId \in SubscriptionOf(c, k - 1)}

\* C33: a connected client has received 'temperature:update' for exactly
\* the broadcasts made while the device was in its subscription set (the
\* list of its latest subscribe minus the ids unsubscribed since), and for
\* no other broadcast, earlier or later.
C33_FanoutToSubscribed ==
  \A c \in Clients :
    clients[c].connected => clients[c].updates = DueUpdates(c, ConnectedAt(c))

\* The part of the statement on the emission: a broadcast goes to exactly
\* the sockets whose set holds the device at that moment, whatever the set
\* came from, and no update is emitted at any other moment.
EmittedToHolders ==
  [][/\ \A c \in Clients :
          clients'[c].updates # clients[c].updates /\ clients'[c].connected
          => /\ wslog'[Len(wslog')].type = "broadcast"
             /\ clients'[c].updates = clients[c].updates \cup {Len(wslog')}
             /\ Subscribed(c, wslog'[Len(wslog')].deviceId)
     /\ (Len(wslog') > Len(wslog) /\ wslog'[Len(wslog')].type = "broadcast")
          => \A c \in Clients :
               Subscribed(c, wslog'[Len(wslog')].deviceId)
               => Len(wslog') \in clients'[c].updates]_vars

\* The stored Readings of device d taken in [b, b + width of g).
FullInterval(d, g, b) ==
  {i \in 1..Len(readings) :
     /\ readings[i].deviceId = d
     /\ b <= readings[i].takenAt /\ readings[i].takenAt < b + Width(g)}

\* C35: every bucket a run writes holds the median of all the stored
\* Readings of the device taken in the full interval of the bucket, the
\* first bucket of a window whose `from` lies inside it included.
C35_FullIntervalMedian ==
  \A r \in Runners :
    runs[r].pc \in {"delete", "insert"}
    => \A x \in runs[r].values :
         x.medianC =
           MiddleOf(FullInterval(x.deviceId, x.granularity, x.bucketStart))

\* The same for the buckets that start at or after `from`: these hold the
\* median of their full interval.
WholeBucketsFullMedian ==
  \A r \in Runners :
    runs[r].pc \in {"delete", "insert"}
    => \A x \in runs[r].values :
         runs[r].from <= x.bucketStart
         => x.medianC =
              MiddleOf(FullInterval(x.deviceId, x.granularity, x.bucketStart))

\* C36: the last-triggered time of a rule never decreases: every step that
\* writes it, in whatever order the steps of the checkAlerts invocations
\* interleave, stores a time at or after the one it replaces.
C36_LastTriggeredMonotone ==
  [][\A i \in DOMAIN alerts :
       alerts[i].lastTriggeredAt # Null
       => /\ alerts'[i].lastTriggeredAt # Null
          /\ Val(alerts'[i].lastTriggeredAt) >= Val(alerts[i].lastTriggeredAt)
    ]_vars

\* The number of stored buckets of device d, granularity g and start b.
BucketCount(d, g, b) ==
  BagCardinality([x \in {y \in DOMAIN aggregates :
                          /\ y.deviceId = d /\ y.granularity = g
                          /\ y.bucketStart = b} |-> aggregates[x]])

\* C37: once two runs of one granularity with overlapping windows have
\* both completed, however their steps interleaved, the store holds at most
\* one bucket per device, granularity and bucket start in the overlap of
\* the two windows.
C37_OverlapOneBucket ==
  (/\ Len(runlog) = 2
   /\ \A r \in Runners : runs[r].pc = "idle"
   /\ runlog[1].completed /\ runlog[2].completed
   /\ runlog[1].granularity = runlog[2].granularity
   /\ runlog[1].from <= runlog[2].to /\ runlog[2].from <= runlog[1].to)
  => \A d \in Devices, b \in AlignedStarts(runlog[1].granularity, clock) :
       (/\ InRange(b, runlog[1].from, runlog[1].to)
        /\ InRange(b, runlog[2].from, runlog[2].to))
       => BucketCount(d, runlog[1].granularity, b) <= 1

\* C38: once a call updateLastSeen(deviceId) has settled, it has settled
\* without error, the registry holds exactly one row of that id, and the
\* lastSeenAt of the row is set, to the time of the call or a later one;
\* this also when the device was unknown before the call and when two
\* calls for the same unknown id run concurrently.
C38_TouchLastSeen ==
  \A k \in Callers :
    touches[k].pc = "done"
    => /\ ~touches[k].error
       /\ Cardinality({row \in devices : row.id = touches[k].deviceId}) = 1
       /\ \A row \in devices :
            row.id = touches[k].deviceId
            => /\ row.lastSeenAt # Null
               /\ Val(row.lastSeenAt) >= touches[k].at

\* The part of the statement on the records: a settled call leaves exactly
\* one row of its id, and a call that found the device leaves its
\* lastSeenAt at the time of the call or later.
OneRecordAndKnownSeen ==
  \A k \in Callers :
    touches[k].pc = "done"
    => /\ Cardinality({row \in devices : row.id = touches[k].deviceId}) = 1
       /\ touches[k].existing # Null
            => \A row \in devices :
                 row.id = touches[k].deviceId
                 => /\ row.lastSeenAt # Null
                    /\ Val(row.lastSeenAt) >= touches[k].at
====
